---- MODULE Spec2Model ----
(***************************************************************************)
(* Model of the CodeIQ Navigator pipeline: ingestion queue and worker      *)
(* pool (step1_file_queue.py, step2_repo_parser.py), syntax extraction     *)
(* (step3_ast_parser.py), graph builders (step4_graph_builder.py) and the  *)
(* orchestrator (step5_navigator.py).                                      *)
(*                                                                         *)
(* Python strings are modelled as sequences of one-character strings, so   *)
(* that replace/strip/split/startswith are computed character by           *)
(* character as the code computes them.                                    *)
(***************************************************************************)
EXTENDS Integers, Sequences, FiniteSets, TLC

\* ------------------------------------------------------------------ bounds

\* Largest worker pool the orchestrator is constructed with (max_workers).
MaxWorkers == 2
\* Number of analyze_repository calls made on one orchestrator.
MaxSessions == 2
\* Longest source file, in lines, given to the builders.
MaxLines == 3

\* ------------------------------------------------------- Python str helpers

Range(f) == {f[i] : i \in DOMAIN f}

Max(a, b) == IF a >= b THEN a ELSE b

Min(a, b) == IF a <= b THEN a ELSE b

SetMin(S) == CHOOSE x \in S : \A y \in S : x <= y

SetMax(S) == CHOOSE x \in S : \A y \in S : x >= y

\* str.replace(old, new) for one-character old and new
Replace(s, old, new) == [i \in 1..Len(s) |-> IF s[i] = old THEN new ELSE s[i]]

\* str.startswith(p)
StartsWith(s, p) == Len(s) >= Len(p) /\ SubSeq(s, 1, Len(p)) = p

\* str.endswith(p)
EndsWith(s, p) == Len(s) >= Len(p) /\ SubSeq(s, Len(s) - Len(p) + 1, Len(s)) = p

\* str.strip(): leading and trailing blanks removed
Strip(s) ==
    LET keep == {i \in 1..Len(s) : s[i] # " "}
    IN  IF keep = {} THEN <<>> ELSE SubSeq(s, SetMin(keep), SetMax(keep))

\* c in s
Contains(s, c) == \E i \in 1..Len(s) : s[i] = c

\* s.split(c)[0]: the text before the first c, all of s when c is absent
SplitHead(s, c) ==
    LET hits == {i \in 1..Len(s) : s[i] = c}
    IN  IF hits = {} THEN s ELSE SubSeq(s, 1, SetMin(hits) - 1)

Digit(d) == <<"0", "1", "2", "3", "4", "5", "6", "7", "8", "9">>[d + 1]

\* str(i) for 0 <= i < 100
IntToStr(i) == IF i < 10 THEN <<Digit(i)>> ELSE <<Digit(i \div 10), Digit(i % 10)>>

\* os.path.basename
Basename(path) ==
    LET hits == {i \in 1..Len(path) : path[i] = "/"}
    IN  IF hits = {} THEN path ELSE SubSeq(path, SetMax(hits) + 1, Len(path))

\* os.path.splitext(path)[1]: from the last dot of the basename, unless the
\* basename has only leading dots before it
SplitExt(path) ==
    LET base == Basename(path)
        dots == {i \in 1..Len(base) : base[i] = "."}
    IN  IF dots = {} THEN <<>>
        ELSE LET d == SetMax(dots)
             IN  IF \A i \in 1..(d - 1) : base[i] = "." THEN <<>>
                 ELSE SubSeq(base, d, Len(base))


\* ------------------------------------------------------------ source text
\* A file's content is the sequence of its lines (content.splitlines());
\* the empty content "" is the empty sequence.

LineTexts ==
    { <<"x", " ", "=", " ", "1">>,
      <<"p", "a", "s", "s">>,
      <<"#", " ", "y", " ", "=", " ", "2">>,
      <<"d", "e", "f", " ", "f", "(", ")", ":">>,
      <<"d", "e", "f", " ", "g", "(", "a", "=", "1", ")", ":">>,
      <<"c", "l", "a", "s", "s", " ", "C", ":">> }

Indented(n, t) == [i \in 1..n |-> " "] \o t

\* leading blanks of a line
Indent(line) ==
    LET ink == {i \in 1..Len(line) : line[i] # " "}
    IN  IF ink = {} THEN Len(line) ELSE SetMin(ink) - 1

IsHeader(line) ==
    LET t == Strip(line)
    IN  EndsWith(t, <<":">>) /\
        (StartsWith(t, <<"d", "e", "f", " ">>) \/ StartsWith(t, <<"c", "l", "a", "s", "s", " ">>))

\* Block structure of a Python source: the first line is at column 0, the line
\* after a def/class header is one level deeper, any other line is no deeper
\* than its predecessor, and the last line is not a header.
WellFormed(lines) ==
    /\ Len(lines) >= 1
    /\ Indent(lines[1]) = 0
    /\ ~IsHeader(lines[Len(lines)])
    /\ \A i \in 1..(Len(lines) - 1) :
           IF IsHeader(lines[i])
           THEN Indent(lines[i + 1]) = Indent(lines[i]) + 1
           ELSE Indent(lines[i + 1]) <= Indent(lines[i])

SourceLines == {Indented(n, t) : n \in 0..(MaxLines - 1), t \in LineTexts}

SeqsUpTo(S, n) == UNION {[1..k -> S] : k \in 1..n}

\* the line sequences of length k that have the block structure of
\* WellFormed up to their last line
RECURSIVE BlockPrefixes(_)
BlockPrefixes(k) ==
    IF k = 1 THEN {<<l>> : l \in {x \in SourceLines : Indent(x) = 0}}
    ELSE {cl[1] \o <<cl[2]>> :
             cl \in {pr \in BlockPrefixes(k - 1) \X SourceLines :
                        IF IsHeader(pr[1][k - 1])
                        THEN Indent(pr[2]) = Indent(pr[1][k - 1]) + 1
                        ELSE Indent(pr[2]) <= Indent(pr[1][k - 1])}}

\* the non-empty file contents the model reads from disk: the well-formed
\* sequences of up to MaxLines lines
Sources ==
    {c \in UNION {BlockPrefixes(k) : k \in 1..MaxLines} : ~IsHeader(c[Len(c)])}

\* file contents that are not Python: a header without body, a first line
\* that is indented, a body that no header opens
Malformed ==
    {c \in SeqsUpTo({Indented(n, t) : n \in 0..1, t \in LineTexts}, MaxLines - 1) :
        ~WellFormed(c)}

\* the line window _simple_parse_file gives a class: min(i + 20, len(lines))
ClassWindow == 20

\* a file longer than both line windows of the fallback parser: a class
\* header, a method header, and a body of ClassWindow lines
LongSource ==
    << <<"c", "l", "a", "s", "s", " ", "C", ":">>,
       Indented(1, <<"d", "e", "f", " ", "f", "(", ")", ":">>) >>
    \o [i \in 1..ClassWindow |-> Indented(2, <<"p", "a", "s", "s">>)]

\* ------------------------------------------- tree-sitter concrete syntax
\* tree = self.parser.parse(bytes(content)): the concrete syntax tree of a
\* source, as records [type, text, row_start, row_end, children]; rows are
\* 0-based as in node.start_point[0]. The parser returns a tree for every
\* text: a def or class header that no body follows becomes an ERROR node
\* over its tokens, and a line that is deeper than the block it stands in
\* belongs to no statement.

Leaf(type, text, row) ==
    [type |-> type, text |-> text, row_start |-> row, row_end |-> row, children |-> <<>>]

\* last line of the block opened by line i
BlockEnd(lines, i) ==
    SetMax({j \in i..Len(lines) :
               \A k \in (i + 1)..j : Indent(lines[k]) > Indent(lines[i])})

\* a set of integers as a sequence in increasing order
RECURSIVE SortedSeq(_)
SortedSeq(S) == IF S = {} THEN <<>> ELSE <<SetMin(S)>> \o SortedSeq(S \ {SetMin(S)})

RECURSIVE TSNode(_, _)
TSNode(lines, i) ==
    LET t    == Strip(lines[i])
        row  == i - 1
        last == BlockEnd(lines, i)
        kids == SortedSeq({j \in (i + 1)..last : Indent(lines[j]) = Indent(lines[i]) + 1})
        block == [type |-> "block", text |-> <<>>,
                  row_start |-> row + 1, row_end |-> last - 1,
                  children |-> [k \in 1..Len(kids) |-> TSNode(lines, kids[k])]]
    IN  IF IsHeader(lines[i]) /\ kids = <<>>
        THEN [type |-> "ERROR", text |-> t, row_start |-> row, row_end |-> row,
              children |-> << Leaf("identifier",
                                   SplitHead(SplitHead(SubSeq(t, Len(SplitHead(t, " ")) + 2,
                                                              Len(t)), "("), ":"), row) >>]
        ELSE IF StartsWith(t, <<"d", "e", "f", " ">>) /\ EndsWith(t, <<":">>)
        THEN [type |-> "function_definition", text |-> t,
              row_start |-> row, row_end |-> last - 1,
              children |-> << Leaf("def", <<"d", "e", "f">>, row),
                              Leaf("identifier", SplitHead(SubSeq(t, 5, Len(t)), "("), row),
                              Leaf("parameters",
                                   SubSeq(t, 5 + Len(SplitHead(SubSeq(t, 5, Len(t)), "(")),
                                          Len(t) - 1), row),
                              Leaf(":", <<":">>, row),
                              block >>]
        ELSE IF StartsWith(t, <<"c", "l", "a", "s", "s", " ">>) /\ EndsWith(t, <<":">>)
        THEN [type |-> "class_definition", text |-> t,
              row_start |-> row, row_end |-> last - 1,
              children |-> << Leaf("class", <<"c", "l", "a", "s", "s">>, row),
                              Leaf("identifier", SplitHead(SubSeq(t, 7, Len(t)), ":"), row),
                              Leaf(":", <<":">>, row),
                              block >>]
        ELSE IF StartsWith(t, <<"#">>) THEN Leaf("comment", t, row)
        ELSE IF Contains(t, "=") THEN Leaf("expression_statement", t, row)
        ELSE Leaf("pass_statement", t, row)

\* tree.root_node
TSParse(content) ==
    LET tops == SortedSeq({j \in 1..Len(content) : Indent(content[j]) = 0})
    IN  [type |-> "module", text |-> <<>>,
         row_start |-> 0, row_end |-> Len(content) - 1,
         children |-> [k \in 1..Len(tops) |-> TSNode(content, tops[k])]]


\* --------------------------------------------------------- syntax extractor

\* ASTNode(id, type, name, file_path, line_start, line_end, children=[])
ASTNode(id, type, name, file_path, line_start, line_end) ==
    [id |-> id, type |-> type, name |-> name, file_path |-> file_path,
     line_start |-> line_start, line_end |-> line_end, children |-> <<>>]

\* the value of an Optional[ASTNode] that is None
NoneNode == ASTNode(<<>>, "none", <<>>, <<>>, 0, 0)

S_file == <<"f", "i", "l", "e", "_">>

S_func == <<"f", "u", "n", "c", "_">>

S_class == <<"c", "l", "a", "s", "s", "_">>

\* the first child of type identifier: content[child.start_byte:child.end_byte],
\* the empty sequence when there is none (func_name stays None)
FirstIdentifier(node) ==
    LET ids == {i \in 1..Len(node.children) : node.children[i].type = "identifier"}
    IN  IF ids = {} THEN <<>> ELSE node.children[SetMin(ids)].text

\* the children of a node's block children, in order
RECURSIVE BlockChildren(_)
BlockChildren(children) ==
    IF children = <<>> THEN <<>>
    ELSE (IF Head(children).type = "block" THEN Head(children).children ELSE <<>>)
         \o BlockChildren(Tail(children))

RECURSIVE ExtractPythonEntities(_, _, _)
RECURSIVE ExtractEach(_, _, _)

\* for child in nodes: self._extract_python_entities(child, content, file_path, parent)
ExtractEach(nodes, file_path, parent) ==
    IF nodes = <<>> THEN parent
    ELSE ExtractEach(Tail(nodes), file_path,
                     ExtractPythonEntities(Head(nodes), file_path, parent))

\* _extract_python_entities: the parent after the appends the call makes to it
ExtractPythonEntities(node, file_path, parent) ==
    LET name == FirstIdentifier(node)
        pid  == Replace(file_path, "/", "_")
        func_node == ASTNode(S_func \o pid \o <<"_">> \o name, "function", name, file_path,
                             node.row_start + 1, node.row_end + 1)
        class_node == ASTNode(S_class \o pid \o <<"_">> \o name, "class", name, file_path,
                              node.row_start + 1, node.row_end + 1)
        made == IF node.type = "function_definition" /\ name # <<>>
                THEN <<func_node>>
                ELSE IF node.type = "class_definition" /\ name # <<>>
                THEN <<ExtractEach(BlockChildren(node.children), file_path, class_node)>>
                ELSE <<>>
    IN  ExtractEach(node.children, file_path,
                    [parent EXCEPT !.children = @ \o made])

\* _parse_python_file
ParsePythonFile(content, file_path) ==
    LET file_ast == ASTNode(S_file \o Replace(file_path, "/", "_"), "class",
                            Basename(file_path), file_path, 1, Len(content))
    IN  ExtractPythonEntities(TSParse(content), file_path, file_ast)

\* mutant of SimpleEntity: line_end is the window's end, not clamped to the file
SimpleEntityNoClamp(lines, file_path, i) ==
    LET line == Strip(lines[i + 1])
        pid  == Replace(file_path, "/", "_")
    IN  IF StartsWith(line, <<"d", "e", "f", " ">>) /\ EndsWith(line, <<":">>)
        THEN LET func_name == SplitHead(SubSeq(line, 5, Len(line) - 1), "(")
             IN  ASTNode(S_func \o pid \o <<"_">> \o func_name \o <<"_">> \o IntToStr(i),
                         "function", func_name, file_path,
                         i + 1, i + 10)
        ELSE IF StartsWith(line, <<"c", "l", "a", "s", "s", " ">>) /\ EndsWith(line, <<":">>)
        THEN LET class_name == SplitHead(SplitHead(SubSeq(line, 7, Len(line) - 1), "("), ":")
             IN  ASTNode(S_class \o pid \o <<"_">> \o class_name \o <<"_">> \o IntToStr(i),
                         "class", class_name, file_path,
                         i + 1, i + 20)
        ELSE NoneNode

\* the node _simple_parse_file makes for line i (0-based), NoneNode for no match
SimpleEntity(lines, file_path, i) ==
    LET line == Strip(lines[i + 1])
        pid  == Replace(file_path, "/", "_")
    IN  IF StartsWith(line, <<"d", "e", "f", " ">>) /\ EndsWith(line, <<":">>)
        THEN LET func_name == SplitHead(SubSeq(line, 5, Len(line) - 1), "(")
             IN  ASTNode(S_func \o pid \o <<"_">> \o func_name \o <<"_">> \o IntToStr(i),
                         "function", func_name, file_path,
                         i + 1, Min(i + 10, Len(lines)))
        ELSE IF StartsWith(line, <<"c", "l", "a", "s", "s", " ">>) /\ EndsWith(line, <<":">>)
        THEN LET class_name == SplitHead(SplitHead(SubSeq(line, 7, Len(line) - 1), "("), ":")
             IN  ASTNode(S_class \o pid \o <<"_">> \o class_name \o <<"_">> \o IntToStr(i),
                         "class", class_name, file_path,
                         i + 1, Min(i + 20, Len(lines)))
        ELSE NoneNode

\* _simple_parse_file
SimpleParseFile(content, file_path) ==
    LET lines == content
        hits  == SortedSeq({i \in 0..(Len(lines) - 1) :
                               SimpleEntity(lines, file_path, i) # NoneNode})
        file_ast == ASTNode(S_file \o Replace(file_path, "/", "_"), "class",
                            Basename(file_path), file_path, 1, Len(lines))
    IN  [file_ast EXCEPT !.children =
            [k \in 1..Len(hits) |-> SimpleEntity(lines, file_path, hits[k])]]

\* mutant of ParseFile: no tree for a text that is not well-formed
ParseFileStrict(file_path, content, languages) ==
    IF content = <<>> \/ ~WellFormed(content) THEN NoneNode
    ELSE IF SplitExt(file_path) = <<".", "p", "y">> /\ "python" \in languages
    THEN ParsePythonFile(content, file_path)
    ELSE SimpleParseFile(content, file_path)

\* parse_file; languages is self.languages' key set
ParseFile(file_path, content, languages) ==
    IF content = <<>> THEN NoneNode
    ELSE IF SplitExt(file_path) = <<".", "p", "y">> /\ "python" \in languages
    THEN ParsePythonFile(content, file_path)
    ELSE SimpleParseFile(content, file_path)

\* ----------------------------------------------------------- graph builders
\* A networkx DiGraph: nodes maps a node id to its attributes, edges maps a
\* pair (source, target) to the edge's type; adding a node or an edge that
\* exists overwrites its attributes.

EmptyGraph == [nodes |-> <<>>, edges |-> <<>>]

AddNode(graph, id, attrs) ==
    [graph EXCEPT !.nodes = (id :> attrs) @@ @]

\* add_edge also adds the end points that are not nodes yet, without attributes
AddEdge(graph, u, v, type) ==
    LET ends == {e \in {u, v} : e \notin DOMAIN graph.nodes}
    IN  [nodes |-> [e \in ends |-> <<>>] @@ graph.nodes,
         edges |-> (<<u, v>> :> type) @@ graph.edges]

RECURSIVE AddAstNodeToGraph(_, _, _)
RECURSIVE AddChildrenToGraph(_, _, _)

\* for child in ast_node.children: self._add_ast_node_to_graph(child, graph, ast_node.id)
AddChildrenToGraph(children, graph, parent_id) ==
    IF children = <<>> THEN graph
    ELSE AddChildrenToGraph(Tail(children),
                            AddAstNodeToGraph(Head(children), graph, parent_id),
                            parent_id)

\* HPGBuilder._add_ast_node_to_graph; parent_id None is the empty sequence
AddAstNodeToGraph(ast_node, graph, parent_id) ==
    LET g1 == AddNode(graph, ast_node.id,
                      [type |-> ast_node.type, name |-> ast_node.name,
                       file_path |-> ast_node.file_path,
                       line_start |-> ast_node.line_start,
                       line_end |-> ast_node.line_end])
        g2 == IF parent_id # <<>> THEN AddEdge(g1, parent_id, ast_node.id, "contains")
              ELSE g1
    IN  AddChildrenToGraph(ast_node.children, g2, ast_node.id)

\* mutant of HPGBuild: only the first tree is added
HPGBuildFirstOnly(ast_nodes) ==
    AddChildrenToGraph(SubSeq(ast_nodes, 1, 1), EmptyGraph, <<>>)

\* HPGBuilder.build
HPGBuild(ast_nodes) == AddChildrenToGraph(ast_nodes, EmptyGraph, <<>>)

S_entry == <<"e", "n", "t", "r", "y", "_">>

S_exit == <<"e", "x", "i", "t", "_">>

S_var == <<"v", "a", "r", "_">>

\* lines[n-1] if n <= len(lines) else ""
CodeSnippet(lines, n) == IF n <= Len(lines) THEN lines[n] ELSE <<>>

\* mutant of CFGBuild: the exit node is given the entry's line
CFGBuildExitAtStart(ast_node, content) ==
    LET lines == content
        entry_node == [id |-> S_entry \o ast_node.id, type |-> "entry",
                       ast_node_id |-> ast_node.id,
                       line_number |-> ast_node.line_start,
                       code_snippet |-> CodeSnippet(lines, ast_node.line_start)]
        exit_node == [id |-> S_exit \o ast_node.id, type |-> "exit",
                      ast_node_id |-> ast_node.id,
                      line_number |-> ast_node.line_start,
                      code_snippet |-> CodeSnippet(lines, ast_node.line_start)]
        g1 == AddNode(EmptyGraph, entry_node.id, entry_node)
        g2 == AddNode(g1, exit_node.id, exit_node)
    IN  AddEdge(g2, entry_node.id, exit_node.id, "normal")

\* CFGBuilder.build
CFGBuild(ast_node, content) ==
    LET lines == content
        entry_node == [id |-> S_entry \o ast_node.id, type |-> "entry",
                       ast_node_id |-> ast_node.id,
                       line_number |-> ast_node.line_start,
                       code_snippet |-> CodeSnippet(lines, ast_node.line_start)]
        exit_node == [id |-> S_exit \o ast_node.id, type |-> "exit",
                      ast_node_id |-> ast_node.id,
                      line_number |-> ast_node.line_end,
                      code_snippet |-> CodeSnippet(lines, ast_node.line_end)]
        g1 == AddNode(EmptyGraph, entry_node.id, entry_node)
        g2 == AddNode(g1, exit_node.id, exit_node)
    IN  AddEdge(g2, entry_node.id, exit_node.id, "normal")

\* the (var_name, line) pair _extract_variables appends for line i (0-based),
\* as a sequence of zero or one pair
VariableAt(lines, i) ==
    LET line == Strip(lines[i + 1])
        var_name == Strip(SplitHead(line, "="))
    IN  IF Contains(line, "=") /\ ~StartsWith(line, <<"#">>)
           /\ var_name # <<>> /\ ~StartsWith(var_name, <<" ">>)
        THEN << <<var_name, i + 1>> >>
        ELSE <<>>

RECURSIVE VariablesFrom(_, _, _)
VariablesFrom(lines, i, stop) ==
    IF i >= stop THEN <<>>
    ELSE VariableAt(lines, i) \o VariablesFrom(lines, i + 1, stop)

\* PDGBuilder._extract_variables
ExtractVariables(content, start_line, end_line) ==
    VariablesFrom(content, start_line - 1, Min(end_line, Len(content)))

RECURSIVE PDGAddNodes(_, _, _, _)
PDGAddNodes(graph, ast_node, variables, i) ==
    IF i >= Len(variables) THEN graph
    ELSE LET node == [id |-> S_var \o ast_node.id \o <<"_">> \o IntToStr(i),
                      variable |-> variables[i + 1][1],
                      line_number |-> variables[i + 1][2],
                      scope |-> ast_node.name]
         IN  PDGAddNodes(AddNode(graph, node.id, node), ast_node, variables, i + 1)

RECURSIVE PDGAddEdges(_, _, _, _)
PDGAddEdges(graph, ast_node, n, i) ==
    IF i >= n - 1 THEN graph
    ELSE PDGAddEdges(AddEdge(graph,
                             S_var \o ast_node.id \o <<"_">> \o IntToStr(i),
                             S_var \o ast_node.id \o <<"_">> \o IntToStr(i + 1),
                             "data_flow"),
                     ast_node, n, i + 1)

\* mutant of PDGBuild: the edge loop stops one position early
PDGBuildShort(ast_node, content) ==
    LET variables == ExtractVariables(content, ast_node.line_start, ast_node.line_end)
    IN  PDGAddEdges(PDGAddNodes(EmptyGraph, ast_node, variables, 0),
                    ast_node, Len(variables) - 1, 0)

\* PDGBuilder.build
PDGBuild(ast_node, content) ==
    LET variables == ExtractVariables(content, ast_node.line_start, ast_node.line_end)
    IN  PDGAddEdges(PDGAddNodes(EmptyGraph, ast_node, variables, 0),
                    ast_node, Len(variables), 0)


\* ------------------------------------------------------------------- state

\* Python dicts keep insertion order: a dict is a sequence of <<key, value>>.
DictKeys(d) == {d[i][1] : i \in 1..Len(d)}

DictGet(d, k, default) ==
    IF k \in DictKeys(d) THEN d[CHOOSE i \in 1..Len(d) : d[i][1] = k][2] ELSE default

\* d[k] = v
DictSet(d, k, v) ==
    IF k \in DictKeys(d)
    THEN [i \in 1..Len(d) |-> IF d[i][1] = k THEN <<k, v>> ELSE d[i]]
    ELSE Append(d, <<k, v>>)

\* the file paths discover_files returns for a clone in the directory "r"
P_a == <<"r", "/", "a", ".", "p", "y">>

P_b == <<"r", "/", "b", ".", "j", "s">>

\* process_repository clones into a new tempfile.TemporaryDirectory, which is
\* removed when the call ends: a later call can get a directory of the same
\* name or of another one
TempDirs == {<<"r">>, <<"s">>}

\* the paths os.walk yields below the directory d
PathsIn(d) == {d \o Tail(P_a), d \o Tail(P_b)}

Paths == UNION {PathsIn(d) : d \in TempDirs}

\* the file contents a clone can put on disk in the protocol model
Src_f ==
    << <<"d", "e", "f", " ", "f", "(", ")", ":">>,
       <<" ", "x", " ", "=", " ", "1">>,
       <<" ", "y", " ", "=", " ", "2">> >>

Src_C ==
    << <<"c", "l", "a", "s", "s", " ", "C", ":">>,
       <<" ", "d", "e", "f", " ", "f", "(", ")", ":">>,
       <<" ", " ", "p", "a", "s", "s">> >>

Contents == {Src_f, Src_C}

\* the content the repository has for a path
ContentAt(p) == IF EndsWith(p, <<".", "p", "y">>) THEN Src_C ELSE Src_f

\* a walk of the clone lists each file once, in some order
FileLists(d) ==
    {fl \in UNION {[1..k -> PathsIn(d)] : k \in 0..Cardinality(PathsIn(d))} :
        \A i, j \in 1..Len(fl) : i # j => fl[i] # fl[j]}

Workers == 1..MaxWorkers

VARIABLES
    languages,        \* ASTParser.languages (key set)
    max_workers,      \* FileQueue.max_workers
    processed_files,  \* FileQueue.processed_files
    queue,            \* FileQueue.queue: the pending FileTasks, by path
    unfinished,       \* asyncio.Queue's count of put items not yet task_done
    pc,               \* where analyze_repository stands
    files,            \* process_repository: discovered paths not yet added
    contents,         \* process_repository: the local file_contents dict
    wstate,           \* per worker task: none, get, read, exited, cancelled, failed
    wtask,            \* per worker: the path of the FileTask it holds
    file_contents,    \* NavigatorModule.file_contents
    ast_cache,        \* NavigatorModule.ast_cache
    hpg,              \* NavigatorModule.hpg: <<>> is None, <<g>> a graph
    cfgs,             \* NavigatorModule.cfgs
    pdgs,             \* NavigatorModule.pdgs
    ast_nodes,        \* analyze_repository: the local list ast_nodes
    outcome,          \* how the last analyze_repository call ended
    report,           \* the report it returned, <<>> when none
    session,          \* analyze_repository calls started so far
    disk,             \* what read_file_content finds for each path of the clone
    discovered,       \* the paths discover_files returned in this session
    h_seen0,          \* history: processed_files when this session started
    h_put,            \* history: queue.put calls
    h_done,           \* history: queue.task_done calls that returned
    h_reads,          \* history: read_file_content calls per path
    h_failed,         \* history: the paths whose read returned ""
    response,         \* what the last step returned to an endpoint's caller
    ostate,           \* per worker task of a cancelled call: as wstate, or inflight
    otask,            \* per worker of a cancelled call: the path it holds
    ohold,            \* per worker of a cancelled call: what an open file gives it
    ocontents,        \* the content map of a cancelled call
    pc2,              \* where a second analyze_repository call stands
    contents2,        \* the second call's local file_contents dict
    wstate2,          \* per worker task of the second call: as wstate
    wtask2,           \* per worker of the second call: the path it holds
    outcome2,         \* how the second call ended
    h_put2,           \* history: the paths the second call enqueued
    h_overlap,        \* history: the second call started with the first in flight
    b_pc,             \* builder runs: next stage
    b_files,          \* builder runs: the input file-content map
    b_trees,          \* builder runs: parse_file results
    b_hpg,            \* builder runs: HPGBuilder.build result
    b_unit,           \* builder runs: the unit given to CFG/PDG build
    b_text,           \* builder runs: the source text given with it
    b_cfg,            \* builder runs: CFGBuilder.build result
    b_pdg,            \* builder runs: PDGBuilder.build result
    b_first           \* repeated runs: what the first run built, <<>> before

navVars == <<file_contents, ast_cache, hpg, cfgs, pdgs>>

queueVars == <<processed_files, queue, unfinished>>

workerVars == <<wstate, wtask, contents>>

histVars == <<h_seen0, h_put, h_done, h_reads, h_failed>>

orphanVars == <<ostate, otask, ohold, ocontents>>

overlapVars == <<pc2, contents2, wstate2, wtask2, outcome2, h_put2, h_overlap>>

buildVars == <<b_pc, b_files, b_trees, b_hpg, b_unit, b_text, b_cfg, b_pdg, b_first>>

protoVars == <<languages, max_workers, processed_files, queue, unfinished, pc, files,
               contents, wstate, wtask, file_contents, ast_cache, hpg, cfgs, pdgs,
               ast_nodes, outcome, report, session, disk, discovered,
               h_seen0, h_put, h_done, h_reads, h_failed, response,
               ostate, otask, ohold, ocontents,
               pc2, contents2, wstate2, wtask2, outcome2, h_put2, h_overlap>>

vars == <<protoVars, buildVars>>

\* the builder-run variables while the protocol model runs, and conversely
BuildIdle ==
    /\ b_pc = "off" /\ b_files = <<>> /\ b_trees = <<>> /\ b_hpg = <<>>
    /\ b_unit = NoneNode /\ b_text = <<>> /\ b_cfg = <<>> /\ b_pdg = <<>>
    /\ b_first = <<>>

\* no call has been cancelled: there are no worker tasks left over
NoOrphans ==
    /\ ostate = [w \in Workers |-> "none"]
    /\ otask = [w \in Workers |-> <<>>]
    /\ ohold = [w \in Workers |-> <<>>]
    /\ ocontents = <<>>

\* no second call has been made
NoSecond ==
    /\ pc2 = "idle"
    /\ contents2 = <<>>
    /\ wstate2 = [w \in Workers |-> "none"]
    /\ wtask2 = [w \in Workers |-> <<>>]
    /\ outcome2 = "none"
    /\ h_put2 = {}
    /\ h_overlap = FALSE

\* NavigatorModule.__init__, RepositoryParser.__init__, FileQueue.__init__;
\* _setup_parsers leaves languages with or without the Python grammar
ProtoInit ==
    /\ languages \in {{}, {"python"}}
    /\ max_workers \in 1..MaxWorkers
    /\ processed_files = {}
    /\ queue = <<>>
    /\ unfinished = 0
    /\ pc = "idle"
    /\ files = <<>>
    /\ contents = <<>>
    /\ wstate = [w \in Workers |-> "none"]
    /\ wtask = [w \in Workers |-> <<>>]
    /\ file_contents = <<>>
    /\ ast_cache = <<>>
    /\ hpg = <<>>
    /\ cfgs = <<>>
    /\ pdgs = <<>>
    /\ ast_nodes = <<>>
    /\ outcome = "none"
    /\ report = <<>>
    /\ session = 0
    /\ disk = [p \in Paths |-> <<>>]
    /\ discovered = {}
    /\ h_seen0 = {}
    /\ h_put = 0
    /\ h_done = 0
    /\ h_reads = [p \in Paths |-> 0]
    /\ h_failed = {}
    /\ response = <<>>
    /\ NoOrphans
    /\ NoSecond

Init == ProtoInit /\ BuildIdle


\* ------------------------------------------------------------ orchestrator

\* mutant of ClearAnalysisEffect: the file-content cache is not cleared
ClearAnalysisKeepsContents ==
    /\ ast_cache' = <<>>
    /\ hpg' = <<>>
    /\ cfgs' = <<>>
    /\ pdgs' = <<>>
    /\ file_contents' = file_contents

\* mutant of ClearAnalysisEffect: the containment graph is kept
ClearAnalysisKeepsGraph ==
    /\ ast_cache' = <<>>
    /\ hpg' = hpg
    /\ cfgs' = <<>>
    /\ pdgs' = <<>>
    /\ file_contents' = <<>>

\* mutant of ClearAnalysisEffect: the CFG cache is kept
ClearAnalysisKeepsCfgs ==
    /\ ast_cache' = <<>>
    /\ hpg' = <<>>
    /\ cfgs' = cfgs
    /\ pdgs' = <<>>
    /\ file_contents' = <<>>

\* NavigatorModule.clear_analysis
ClearAnalysisEffect ==
    /\ ast_cache' = <<>>
    /\ hpg' = <<>>
    /\ cfgs' = <<>>
    /\ pdgs' = <<>>
    /\ file_contents' = <<>>

\* the /api/clear endpoint: clear_analysis called between two analyses, or
\* while analyze_repository is suspended in ingestion
ClearAnalysis ==
    /\ pc \in {"idle", "joined"}
    /\ ClearAnalysisEffect
    /\ response' = <<"cleared">>
    /\ UNCHANGED <<languages, max_workers, queueVars, pc, files, workerVars, ast_nodes,
                   outcome, report, session, disk, discovered, histVars, orphanVars, overlapVars, buildVars>>

\* mutant of SeenSetAtStart: a new analysis starts with an empty seen-set
SeenSetFresh == {}

\* The FileQueue is built once, in RepositoryParser.__init__: the seen-set an
\* analysis starts with is the one the analyses before it left.
SeenSetAtStart == processed_files

\* The names the next temporary directory can have. Names count only by being
\* equal or not to the names of earlier clones: the first name stands for every
\* name while no path below it has been enqueued.
NewTempDirs ==
    {d \in TempDirs : d = <<"r">> \/ PathsIn(<<"r">>) \cap processed_files # {}}

\* analyze_repository up to the end of discover_files: the caches are cleared,
\* the repository is cloned into a temporary directory and walked; this call of
\* process_repository has no content map and no worker yet
AnalyzeStart ==
    /\ pc = "idle"
    /\ session < MaxSessions
    /\ ClearAnalysisEffect
    /\ \E d \in NewTempDirs : \E fl \in FileLists(d) :
         /\ files' = fl
         /\ discovered' = Range(fl)
         /\ \E readable \in SUBSET Range(fl) :
              disk' = [p \in Paths |-> IF p \in readable THEN ContentAt(p) ELSE <<>>]
    /\ ast_nodes' = <<>>
    /\ outcome' = "none"
    /\ report' = <<>>
    /\ session' = session + 1
    /\ processed_files' = SeenSetAtStart
    /\ h_seen0' = SeenSetAtStart
    /\ pc' = "add"
    /\ contents' = <<>>
    /\ wstate' = [w \in Workers |-> "none"]
    /\ wtask' = [w \in Workers |-> <<>>]
    /\ response' = <<>>
    /\ UNCHANGED <<languages, max_workers, queue, unfinished, h_put, h_done, h_reads,
                   h_failed, orphanVars, overlapVars, buildVars>>

\* analyze_repository when Repo.clone_from raises
CloneFails ==
    /\ pc = "idle"
    /\ session < MaxSessions
    /\ ClearAnalysisEffect
    /\ files' = <<>>
    /\ discovered' = {}
    /\ disk' = [p \in Paths |-> <<>>]
    /\ ast_nodes' = <<>>
    /\ outcome' = "CloneError"
    /\ report' = <<>>
    /\ session' = session + 1
    /\ h_seen0' = processed_files
    /\ pc' = "idle"
    /\ response' = <<>>
    /\ UNCHANGED <<languages, max_workers, queueVars, workerVars, h_put, h_done, h_reads,
                   h_failed, orphanVars, overlapVars, buildVars>>

\* mutant of AddFile: the task is put without looking at the seen-set
AddFileNoDedup ==
    /\ pc = "add"
    /\ files # <<>>
    /\ queue' = Append(queue, Head(files))
    /\ unfinished' = unfinished + 1
    /\ processed_files' = processed_files \cup {Head(files)}
    /\ h_put' = h_put + 1
    /\ files' = Tail(files)
    /\ response' = <<>>
    /\ UNCHANGED <<languages, max_workers, pc, workerVars, navVars, ast_nodes, outcome,
                   report, session, disk, discovered, h_seen0, h_done, h_reads, h_failed,
                   orphanVars, overlapVars, buildVars>>

\* FileQueue.add_file for the next discovered path
AddFile ==
    /\ pc = "add"
    /\ files # <<>>
    /\ LET file_path == Head(files)
       IN  IF file_path \notin processed_files
           THEN /\ queue' = Append(queue, file_path)
                /\ unfinished' = unfinished + 1
                /\ processed_files' = processed_files \cup {file_path}
                /\ h_put' = h_put + 1
           ELSE UNCHANGED <<queue, unfinished, processed_files, h_put>>
    /\ files' = Tail(files)
    /\ response' = <<>>
    /\ UNCHANGED <<languages, max_workers, pc, workerVars, navVars, ast_nodes, outcome,
                   report, session, disk, discovered, h_seen0, h_done, h_reads, h_failed,
                   orphanVars, overlapVars, buildVars>>

\* process_repository: file_contents = {} and the workers are created
StartWorkers ==
    /\ pc = "add"
    /\ files = <<>>
    /\ contents' = <<>>
    /\ wstate' = [w \in Workers |-> IF w <= max_workers THEN "get" ELSE "none"]
    /\ wtask' = [w \in Workers |-> <<>>]
    /\ pc' = "join"
    /\ response' = <<>>
    /\ UNCHANGED <<languages, max_workers, queueVars, files, navVars, ast_nodes, outcome,
                   report, session, disk, discovered, histVars, orphanVars, overlapVars, buildVars>>

\* mutant of JoinDone: join returns as soon as no task is pending in the queue
JoinDoneWhenEmpty == queue = <<>>

\* mutant of JoinDone: join returns with one task still unfinished
JoinDoneEarly == unfinished <= 1

\* asyncio.Queue.join's condition: no put item is left without its task_done
JoinDone == unfinished = 0

\* FileQueue.wait_completion is called: it returns at once when nothing is
\* unfinished, else analyze_repository is suspended and the workers run
WaitCompletion ==
    /\ pc = "join"
    /\ pc' = IF JoinDone THEN "cancel" ELSE "joined"
    /\ response' = <<>>
    /\ UNCHANGED <<languages, max_workers, queueVars, files, workerVars, navVars,
                   ast_nodes, outcome, report, session, disk, discovered, histVars,
                   orphanVars, overlapVars, buildVars>>

\* FileQueue.wait_completion returns to the suspended process_repository
WaitCompletionReturns ==
    /\ pc = "joined"
    /\ JoinDone
    /\ pc' = "cancel"
    /\ response' = <<>>
    /\ UNCHANGED <<languages, max_workers, queueVars, files, workerVars, navVars,
                   ast_nodes, outcome, report, session, disk, discovered, histVars,
                   orphanVars, overlapVars, buildVars>>

\* mutant of GetTimesOut: the bounded wait expires although a task is pending
GetTimesOutAnytime == TRUE

\* wait_for(get_file(), timeout) can time out: only a get on an empty queue waits
GetTimesOut == queue = <<>>

\* mutant of WorkerGet: the task is handed out but stays in the queue
WorkerGetPeek(w) ==
    /\ pc = "joined"
    /\ wstate[w] = "get"
    /\ queue # <<>>
    /\ wtask' = [wtask EXCEPT ![w] = Head(queue)]
    /\ queue' = queue
    /\ wstate' = [wstate EXCEPT ![w] = "read"]
    /\ response' = <<>>
    /\ UNCHANGED <<languages, max_workers, processed_files, unfinished, pc, files,
                   contents, navVars, ast_nodes, outcome, report, session, disk,
                   discovered, histVars, orphanVars, overlapVars, buildVars>>

\* _file_worker: get_file returns the oldest pending task
WorkerGet(w) ==
    /\ pc = "joined"
    /\ wstate[w] = "get"
    /\ queue # <<>>
    /\ wtask' = [wtask EXCEPT ![w] = Head(queue)]
    /\ queue' = Tail(queue)
    /\ wstate' = [wstate EXCEPT ![w] = "read"]
    /\ response' = <<>>
    /\ UNCHANGED <<languages, max_workers, processed_files, unfinished, pc, files,
                   contents, navVars, ast_nodes, outcome, report, session, disk,
                   discovered, histVars, orphanVars, overlapVars, buildVars>>

\* read_file_content: the content, "" when the read raises
ReadFileContent(file_path) == disk[file_path]

\* mutant of WorkerRead: the handler's task_done runs after the one of the
\* try block has returned
WorkerReadDoneTwice(w) ==
    /\ pc = "joined"
    /\ wstate[w] = "read"
    /\ LET content == ReadFileContent(wtask[w])
       IN  contents' = IF content # <<>> THEN DictSet(contents, wtask[w], content)
                       ELSE contents
    /\ h_reads' = [h_reads EXCEPT ![wtask[w]] = @ + 1]
    /\ h_failed' = IF ReadFileContent(wtask[w]) = <<>> THEN h_failed \cup {wtask[w]}
                   ELSE h_failed
    /\ IF unfinished > 1
       THEN /\ unfinished' = unfinished - 2
            /\ h_done' = h_done + 2
            /\ wstate' = [wstate EXCEPT ![w] = "get"]
       ELSE /\ unfinished' = 0
            /\ h_done' = h_done + unfinished
            /\ wstate' = [wstate EXCEPT ![w] = "failed"]
    /\ wtask' = [wtask EXCEPT ![w] = <<>>]
    /\ response' = <<>>
    /\ UNCHANGED <<languages, max_workers, processed_files, queue, pc, files, navVars,
                   ast_nodes, outcome, report, session, disk, discovered, h_seen0, h_put,
                   orphanVars, overlapVars, buildVars>>

\* _file_worker: the read finishes, the content is recorded when non-empty and
\* the task is marked done; task_done raises when nothing is unfinished, and
\* raises again in the handler, which ends the worker
WorkerRead(w) ==
    /\ pc = "joined"
    /\ wstate[w] = "read"
    /\ LET content == ReadFileContent(wtask[w])
       IN  contents' = IF content # <<>> THEN DictSet(contents, wtask[w], content)
                       ELSE contents
    /\ h_reads' = [h_reads EXCEPT ![wtask[w]] = @ + 1]
    /\ h_failed' = IF ReadFileContent(wtask[w]) = <<>> THEN h_failed \cup {wtask[w]}
                   ELSE h_failed
    /\ IF unfinished > 0
       THEN /\ unfinished' = unfinished - 1
            /\ h_done' = h_done + 1
            /\ wstate' = [wstate EXCEPT ![w] = "get"]
       ELSE /\ UNCHANGED <<unfinished, h_done>>
            /\ wstate' = [wstate EXCEPT ![w] = "failed"]
    /\ wtask' = [wtask EXCEPT ![w] = <<>>]
    /\ response' = <<>>
    /\ UNCHANGED <<languages, max_workers, processed_files, queue, pc, files, navVars,
                   ast_nodes, outcome, report, session, disk, discovered, h_seen0, h_put,
                   orphanVars, overlapVars, buildVars>>

\* _file_worker: the get times out and the worker leaves its loop
WorkerTimeout(w) ==
    /\ pc = "joined"
    /\ wstate[w] = "get"
    /\ GetTimesOut
    /\ wstate' = [wstate EXCEPT ![w] = "exited"]
    /\ response' = <<>>
    /\ UNCHANGED <<languages, max_workers, queueVars, pc, files, contents, wtask, navVars,
                   ast_nodes, outcome, report, session, disk, discovered, histVars,
                   orphanVars, overlapVars, buildVars>>

\* mutant of CancelWorkers: the map is returned with the workers left waiting
CancelWorkersSkipped ==
    /\ pc = "cancel"
    /\ wstate' = wstate
    /\ file_contents' = contents
    /\ pc' = "check_files"
    /\ response' = <<>>
    /\ UNCHANGED <<languages, max_workers, queueVars, files, contents, wtask, ast_cache,
                   hpg, cfgs, pdgs, ast_nodes, outcome, report, session, disk, discovered,
                   histVars, orphanVars, overlapVars, buildVars>>

\* process_repository: every worker is cancelled and the map is returned;
\* analyze_repository stores it in self.file_contents
CancelWorkers ==
    /\ pc = "cancel"
    /\ wstate' = [w \in Workers |->
                     IF wstate[w] \in {"get", "read"} THEN "cancelled" ELSE wstate[w]]
    /\ file_contents' = contents
    /\ pc' = "check_files"
    /\ response' = <<>>
    /\ UNCHANGED <<languages, max_workers, queueVars, files, contents, wtask, ast_cache,
                   hpg, cfgs, pdgs, ast_nodes, outcome, report, session, disk, discovered,
                   histVars, orphanVars, overlapVars, buildVars>>

\* mutant of NoFilesFound: the empty content map is not checked
NoFilesFoundNever == FALSE

\* if not self.file_contents: raise HTTPException("No files found ...")
NoFilesFound == file_contents = <<>>

CheckFiles ==
    /\ pc = "check_files"
    /\ IF NoFilesFound
       THEN /\ outcome' = "EmptyInput"
            /\ pc' = "idle"
       ELSE /\ outcome' = outcome
            /\ pc' = "parse"
    /\ response' = <<>>
    /\ UNCHANGED <<languages, max_workers, queueVars, files, workerVars, navVars,
                   ast_nodes, report, session, disk, discovered, histVars, orphanVars, overlapVars, buildVars>>

\* the parse loop of analyze_repository: <<ast_cache, ast_nodes>> after the
\* items of the content map from the i-th on
RECURSIVE ParseAll(_, _, _, _, _)
ParseAll(items, i, langs, cache, nodes) ==
    IF i > Len(items) THEN <<cache, nodes>>
    ELSE LET ast_node == ParseFile(items[i][1], items[i][2], langs)
         IN  IF ast_node # NoneNode
             THEN ParseAll(items, i + 1, langs,
                           DictSet(cache, items[i][1], ast_node), Append(nodes, ast_node))
             ELSE ParseAll(items, i + 1, langs, cache, nodes)

BuildASTs ==
    /\ pc = "parse"
    /\ LET r == ParseAll(file_contents, 1, languages, ast_cache, <<>>)
       IN  /\ ast_cache' = r[1]
           /\ ast_nodes' = r[2]
    /\ pc' = "check_asts"
    /\ response' = <<>>
    /\ UNCHANGED <<languages, max_workers, queueVars, files, workerVars, file_contents,
                   hpg, cfgs, pdgs, outcome, report, session, disk, discovered, histVars,
                   orphanVars, overlapVars, buildVars>>

\* mutant of NoValidFiles: a single tree counts as none
NoValidFilesOffByOne == Len(ast_nodes) <= 1

\* if not ast_nodes: raise HTTPException("No valid code files ...")
NoValidFiles == ast_nodes = <<>>

CheckASTs ==
    /\ pc = "check_asts"
    /\ IF NoValidFiles
       THEN /\ outcome' = "NoParseable"
            /\ pc' = "idle"
       ELSE /\ outcome' = outcome
            /\ pc' = "hpg"
    /\ response' = <<>>
    /\ UNCHANGED <<languages, max_workers, queueVars, files, workerVars, navVars,
                   ast_nodes, report, session, disk, discovered, histVars, orphanVars, overlapVars, buildVars>>

\* mutant of BuildHPG: the stage is passed without building the graph
BuildHPGSkipped ==
    /\ pc = "hpg"
    /\ hpg' = hpg
    /\ pc' = "cfg"
    /\ response' = <<>>
    /\ UNCHANGED <<languages, max_workers, queueVars, files, workerVars, file_contents,
                   ast_cache, cfgs, pdgs, ast_nodes, outcome, report, session, disk,
                   discovered, histVars, orphanVars, overlapVars, buildVars>>

BuildHPG ==
    /\ pc = "hpg"
    /\ hpg' = <<HPGBuild(ast_nodes)>>
    /\ pc' = "cfg"
    /\ response' = <<>>
    /\ UNCHANGED <<languages, max_workers, queueVars, files, workerVars, file_contents,
                   ast_cache, cfgs, pdgs, ast_nodes, outcome, report, session, disk,
                   discovered, histVars, orphanVars, overlapVars, buildVars>>

IsUnit(ast_node) == ast_node.type \in {"function", "method"}

RECURSIVE BuildCfgsForNode(_, _, _)
RECURSIVE BuildCfgsForEach(_, _, _)

BuildCfgsForEach(children, content, cache) ==
    IF children = <<>> THEN cache
    ELSE BuildCfgsForEach(Tail(children), content,
                          BuildCfgsForNode(Head(children), content, cache))

\* _build_cfgs_for_node: self.cfgs after the call
BuildCfgsForNode(ast_node, content, cache) ==
    BuildCfgsForEach(ast_node.children, content,
                     IF IsUnit(ast_node)
                     THEN DictSet(cache, ast_node.id, CFGBuild(ast_node, content))
                     ELSE cache)

RECURSIVE BuildPdgsForNode(_, _, _)
RECURSIVE BuildPdgsForEach(_, _, _)

BuildPdgsForEach(children, content, cache) ==
    IF children = <<>> THEN cache
    ELSE BuildPdgsForEach(Tail(children), content,
                          BuildPdgsForNode(Head(children), content, cache))

\* _build_pdgs_for_node: self.pdgs after the call
BuildPdgsForNode(ast_node, content, cache) ==
    BuildPdgsForEach(ast_node.children, content,
                     IF IsUnit(ast_node)
                     THEN DictSet(cache, ast_node.id, PDGBuild(ast_node, content))
                     ELSE cache)

\* for ast_node in ast_nodes: self._build_cfgs_for_node(ast_node, content of its file)
RECURSIVE CfgsForFiles(_, _, _)
CfgsForFiles(nodes, fc, cache) ==
    IF nodes = <<>> THEN cache
    ELSE CfgsForFiles(Tail(nodes), fc,
                      BuildCfgsForNode(Head(nodes),
                                       DictGet(fc, Head(nodes).file_path, <<>>), cache))

RECURSIVE PdgsForFiles(_, _, _)
PdgsForFiles(nodes, fc, cache) ==
    IF nodes = <<>> THEN cache
    ELSE PdgsForFiles(Tail(nodes), fc,
                      BuildPdgsForNode(Head(nodes),
                                       DictGet(fc, Head(nodes).file_path, <<>>), cache))

BuildCFGs ==
    /\ pc = "cfg"
    /\ cfgs' = CfgsForFiles(ast_nodes, file_contents, cfgs)
    /\ pc' = "pdg"
    /\ response' = <<>>
    /\ UNCHANGED <<languages, max_workers, queueVars, files, workerVars, file_contents,
                   ast_cache, hpg, pdgs, ast_nodes, outcome, report, session, disk,
                   discovered, histVars, orphanVars, overlapVars, buildVars>>

BuildPDGs ==
    /\ pc = "pdg"
    /\ pdgs' = PdgsForFiles(ast_nodes, file_contents, pdgs)
    /\ pc' = "report"
    /\ response' = <<>>
    /\ UNCHANGED <<languages, max_workers, queueVars, files, workerVars, file_contents,
                   ast_cache, hpg, cfgs, ast_nodes, outcome, report, session, disk,
                   discovered, histVars, orphanVars, overlapVars, buildVars>>

\* [child.name for child in children if child.type.value == type]
RECURSIVE NamesOfType(_, _)
NamesOfType(children, type) ==
    IF children = <<>> THEN <<>>
    ELSE (IF Head(children).type = type THEN <<Head(children).name>> ELSE <<>>)
         \o NamesOfType(Tail(children), type)

RECURSIVE CountChildren(_, _)
CountChildren(cache, type) ==
    IF cache = <<>> THEN 0
    ELSE Len(NamesOfType(Head(cache)[2].children, type)) + CountChildren(Tail(cache), type)

\* the readings asyncio.get_event_loop().time() can give
Times == {1, 2}

\* _generate_analysis_report when the loop's clock reads now
GenerateAnalysisReport(now) ==
    [analysis_timestamp |-> now,
     total_files |-> Len(ast_cache),
     total_functions |-> CountChildren(ast_cache, "function"),
     total_classes |-> CountChildren(ast_cache, "class"),
     hpg_nodes |-> IF hpg # <<>> THEN Cardinality(DOMAIN hpg[1].nodes) ELSE 0,
     hpg_edges |-> IF hpg # <<>> THEN Cardinality(DOMAIN hpg[1].edges) ELSE 0,
     cfgs_built |-> Len(cfgs),
     pdgs_built |-> Len(pdgs),
     file_breakdown |->
         [i \in 1..Len(ast_cache) |->
             [file_path |-> ast_cache[i][1],
              functions |-> NamesOfType(ast_cache[i][2].children, "function"),
              classes |-> NamesOfType(ast_cache[i][2].children, "class")]]]

Report ==
    /\ pc = "report"
    /\ \E now \in Times : report' = <<GenerateAnalysisReport(now)>>
    /\ outcome' = "report"
    /\ pc' = "idle"
    /\ response' = <<>>
    /\ UNCHANGED <<languages, max_workers, queueVars, files, workerVars, navVars,
                   ast_nodes, session, disk, discovered, histVars, orphanVars, overlapVars, buildVars>>

\* mutant of GetAnalysis: the read drops the containment graph
GetAnalysisDropsGraph ==
    /\ pc \in {"idle", "joined"}
    /\ IF hpg = <<>> \/ DOMAIN hpg[1].nodes = {}
       THEN response' = <<"404">>
       ELSE \E now \in Times :
               /\ report # <<>> => now >= report[1].analysis_timestamp
               /\ response' = <<"analysis", GenerateAnalysisReport(now)>>
    /\ hpg' = <<>>
    /\ UNCHANGED <<languages, max_workers, queueVars, pc, files, workerVars, file_contents,
                   ast_cache, cfgs, pdgs, ast_nodes, outcome, report, session, disk,
                   discovered, histVars, orphanVars, overlapVars, buildVars>>

\* the /api/analysis endpoint, served between two analyses or while
\* analyze_repository is suspended in ingestion: 404 when there is no graph,
\* else the report recomputed from the caches
GetAnalysis ==
    /\ pc \in {"idle", "joined"}
    /\ IF hpg = <<>> \/ DOMAIN hpg[1].nodes = {}
       THEN response' = <<"404">>
       ELSE \E now \in Times :
               /\ report # <<>> => now >= report[1].analysis_timestamp
               /\ response' = <<"analysis", GenerateAnalysisReport(now)>>
    /\ UNCHANGED <<languages, max_workers, queueVars, pc, files, workerVars, navVars,
                   ast_nodes, outcome, report, session, disk, discovered, histVars,
                   orphanVars, overlapVars, buildVars>>

\* NavigatorModule.get_analysis_status
GetAnalysisStatus ==
    [has_analysis |-> hpg # <<>>,
     files_analyzed |-> Len(ast_cache),
     cfgs_built |-> Len(cfgs),
     pdgs_built |-> Len(pdgs),
     hpg_exists |-> hpg # <<>>]

\* mutant of GetStatus: the endpoint is served at any point of the analysis
GetStatusAnytime ==
    /\ response' = <<"status", GetAnalysisStatus>>
    /\ UNCHANGED <<languages, max_workers, queueVars, pc, files, workerVars, navVars,
                   ast_nodes, outcome, report, session, disk, discovered, histVars,
                   orphanVars, overlapVars, buildVars>>

\* the /api/status endpoint, served between two analyses or while
\* analyze_repository is suspended in ingestion
GetStatus ==
    /\ pc \in {"idle", "joined"}
    /\ response' = <<"status", GetAnalysisStatus>>
    /\ UNCHANGED <<languages, max_workers, queueVars, pc, files, workerVars, navVars,
                   ast_nodes, outcome, report, session, disk, discovered, histVars,
                   orphanVars, overlapVars, buildVars>>

Next ==
    \/ ClearAnalysis
    \/ GetAnalysis
    \/ GetStatus
    \/ AnalyzeStart
    \/ CloneFails
    \/ AddFile
    \/ StartWorkers
    \/ WaitCompletion
    \/ WaitCompletionReturns
    \/ \E w \in Workers : WorkerGet(w)
    \/ \E w \in Workers : WorkerRead(w)
    \/ \E w \in Workers : WorkerTimeout(w)
    \/ CancelWorkers
    \/ CheckFiles
    \/ BuildASTs
    \/ CheckASTs
    \/ BuildHPG
    \/ BuildCFGs
    \/ BuildPDGs
    \/ Report

Spec == Init /\ [][Next]_vars


\* The event loop runs every task that is ready: a worker whose get can
\* return or whose read has finished is resumed, and so is process_repository
\* once the queue's join can return.
Fairness ==
    /\ WF_vars(WaitCompletion)
    /\ WF_vars(WaitCompletionReturns)
    /\ \A w \in Workers : WF_vars(WorkerGet(w)) /\ WF_vars(WorkerRead(w))

SpecLive == Spec /\ Fairness

\* ------------------------------------------------------------ cancellation
\* The task that runs analyze_repository is cancelled while it waits in
\* wait_completion. CancelledError leaves process_repository at line 73: the
\* loop that cancels the workers (lines 76-77) is not reached, the
\* TemporaryDirectory is removed on the way out, and the worker tasks stay
\* scheduled with the call's content map. They run whenever the event loop
\* is free: between two calls and while a later call waits for drainage.

\* the worker tasks of a cancelled call that can still run
LiveOrphans == {w \in Workers : ostate[w] \in {"get", "read", "inflight"}}

\* the cancellation; a read that is under way has opened its file and gets
\* its content, or finds the file gone
CancelAnalyze ==
    /\ pc = "joined"
    /\ LiveOrphans = {}
    /\ pc' = "idle"
    /\ outcome' = "Cancelled"
    /\ ostate' = [w \in Workers |-> IF wstate[w] = "read" THEN "inflight" ELSE wstate[w]]
    /\ otask' = wtask
    /\ \E held \in [Workers -> Contents \cup {<<>>}] :
         /\ \A w \in Workers :
               held[w] \in (IF wstate[w] = "read" THEN {disk[wtask[w]], <<>>} ELSE {<<>>})
         /\ ohold' = held
    /\ ocontents' = contents
    /\ wstate' = [w \in Workers |-> "none"]
    /\ wtask' = [w \in Workers |-> <<>>]
    /\ contents' = <<>>
    /\ disk' = [p \in Paths |-> <<>>]
    /\ response' = <<>>
    /\ UNCHANGED <<languages, max_workers, queueVars, files, navVars, ast_nodes, report,
                   session, discovered, histVars, overlapVars,
                   buildVars>>

\* _file_worker of a cancelled call: get_file returns the oldest pending task
OrphanGet(w) ==
    /\ pc \in {"idle", "joined"}
    /\ ostate[w] = "get"
    /\ queue # <<>>
    /\ otask' = [otask EXCEPT ![w] = Head(queue)]
    /\ queue' = Tail(queue)
    /\ ostate' = [ostate EXCEPT ![w] = "read"]
    /\ response' = <<>>
    /\ UNCHANGED <<languages, max_workers, processed_files, unfinished, pc, files,
                   workerVars, navVars, ast_nodes, outcome, report, session, disk,
                   discovered, histVars, ohold, ocontents, overlapVars,
                   buildVars>>

\* _file_worker of a cancelled call: the read finishes, the content is
\* recorded in the call's map when non-empty and the task is marked done
OrphanRead(w) ==
    /\ pc \in {"idle", "joined"}
    /\ ostate[w] \in {"read", "inflight"}
    /\ LET content == IF ostate[w] = "inflight" THEN ohold[w]
                      ELSE ReadFileContent(otask[w])
       IN  /\ ocontents' = IF content # <<>> THEN DictSet(ocontents, otask[w], content)
                           ELSE ocontents
           /\ h_failed' = IF content = <<>> THEN h_failed \cup {otask[w]} ELSE h_failed
    /\ h_reads' = [h_reads EXCEPT ![otask[w]] = @ + 1]
    /\ IF unfinished > 0
       THEN /\ unfinished' = unfinished - 1
            /\ h_done' = h_done + 1
            /\ ostate' = [ostate EXCEPT ![w] = "get"]
       ELSE /\ UNCHANGED <<unfinished, h_done>>
            /\ ostate' = [ostate EXCEPT ![w] = "failed"]
    /\ otask' = [otask EXCEPT ![w] = <<>>]
    /\ ohold' = [ohold EXCEPT ![w] = <<>>]
    /\ response' = <<>>
    /\ UNCHANGED <<languages, max_workers, processed_files, queue, pc, files, workerVars,
                   navVars, ast_nodes, outcome, report, session, disk, discovered,
                   h_seen0, h_put, overlapVars,
                   buildVars>>

\* _file_worker of a cancelled call: the get times out and the worker ends
OrphanTimeout(w) ==
    /\ pc \in {"idle", "joined"}
    /\ ostate[w] = "get"
    /\ GetTimesOut
    /\ ostate' = [ostate EXCEPT ![w] = "exited"]
    /\ response' = <<>>
    /\ UNCHANGED <<languages, max_workers, queueVars, pc, files, workerVars, navVars,
                   ast_nodes, outcome, report, session, disk, discovered, histVars,
                   otask, ohold, ocontents, overlapVars,
                   buildVars>>

NextCancel ==
    \/ Next
    \/ CancelAnalyze
    \/ \E w \in Workers : OrphanGet(w)
    \/ \E w \in Workers : OrphanRead(w)
    \/ \E w \in Workers : OrphanTimeout(w)

SpecCancel == Init /\ [][NextCancel]_vars

\* --------------------------------------------------------- overlapping calls
\* /api/analyze is served by a coroutine per request on the one
\* NavigatorModule: a second analyze_repository call can start whenever the
\* first is not running, which includes the time the first waits in
\* wait_completion. A call runs without yielding from its start to that wait
\* and from the return of the wait to its end; the second call is modelled
\* with these two stretches as single steps.

\* the second call can be passed by other tasks: it has not started, waits
\* for drainage, or has ended
SecondYields == pc2 \in {"idle", "joined", "done"}

\* the first call can be passed by other tasks
FirstYields == pc \in {"idle", "joined"}

\* the tasks add_file makes for the paths of a walk, in order
NewTasks(fl) == SelectSeq(fl, LAMBDA file_path : file_path \notin processed_files)

\* the second call from clear_analysis to wait_completion: the caches are
\* cleared, the clone is walked, the unseen paths are put into the shared
\* queue, the workers are created and the call waits unless nothing is
\* unfinished. While the first call's temporary directory exists the new
\* directory has another name.
SecondStart ==
    /\ pc2 = "idle"
    /\ FirstYields
    /\ session >= 1
    /\ session < MaxSessions
    /\ ClearAnalysisEffect
    /\ \E d \in (IF pc = "joined" THEN {<<"s">>} ELSE NewTempDirs) :
       \E fl \in FileLists(d) :
       \E readable \in SUBSET Range(fl) :
         /\ disk' = [p \in Paths |->
                        IF p \in PathsIn(d)
                        THEN (IF p \in readable THEN ContentAt(p) ELSE <<>>)
                        ELSE (IF pc = "joined" THEN disk[p] ELSE <<>>)]
         /\ queue' = queue \o NewTasks(fl)
         /\ unfinished' = unfinished + Len(NewTasks(fl))
         /\ processed_files' = processed_files \cup Range(fl)
         /\ h_put' = h_put + Len(NewTasks(fl))
         /\ h_put2' = Range(NewTasks(fl))
    /\ contents2' = <<>>
    /\ wstate2' = [w \in Workers |-> IF w <= max_workers THEN "get" ELSE "none"]
    /\ wtask2' = [w \in Workers |-> <<>>]
    /\ pc2' = IF unfinished' = 0 THEN "cancel" ELSE "joined"
    /\ outcome2' = "none"
    /\ h_overlap' = (pc = "joined")
    /\ session' = session + 1
    /\ response' = <<>>
    /\ UNCHANGED <<languages, max_workers, pc, files, workerVars, ast_nodes, outcome,
                   report, discovered, h_seen0, h_done, h_reads, h_failed, orphanVars,
                   buildVars>>

\* _file_worker of the second call: get_file returns the oldest pending task
SecondWorkerGet(w) ==
    /\ pc2 = "joined"
    /\ FirstYields
    /\ wstate2[w] = "get"
    /\ queue # <<>>
    /\ wtask2' = [wtask2 EXCEPT ![w] = Head(queue)]
    /\ queue' = Tail(queue)
    /\ wstate2' = [wstate2 EXCEPT ![w] = "read"]
    /\ response' = <<>>
    /\ UNCHANGED <<languages, max_workers, processed_files, unfinished, pc, files,
                   workerVars, navVars, ast_nodes, outcome, report, session, disk,
                   discovered, histVars, orphanVars, pc2, contents2, outcome2, h_put2,
                   h_overlap, buildVars>>

\* _file_worker of the second call: the read finishes, the content is
\* recorded in the second call's map when non-empty and the task is marked done
SecondWorkerRead(w) ==
    /\ pc2 = "joined"
    /\ FirstYields
    /\ wstate2[w] = "read"
    /\ LET content == ReadFileContent(wtask2[w])
       IN  /\ contents2' = IF content # <<>> THEN DictSet(contents2, wtask2[w], content)
                           ELSE contents2
           /\ h_failed' = IF content = <<>> THEN h_failed \cup {wtask2[w]} ELSE h_failed
    /\ h_reads' = [h_reads EXCEPT ![wtask2[w]] = @ + 1]
    /\ IF unfinished > 0
       THEN /\ unfinished' = unfinished - 1
            /\ h_done' = h_done + 1
            /\ wstate2' = [wstate2 EXCEPT ![w] = "get"]
       ELSE /\ UNCHANGED <<unfinished, h_done>>
            /\ wstate2' = [wstate2 EXCEPT ![w] = "failed"]
    /\ wtask2' = [wtask2 EXCEPT ![w] = <<>>]
    /\ response' = <<>>
    /\ UNCHANGED <<languages, max_workers, processed_files, queue, pc, files, workerVars,
                   navVars, ast_nodes, outcome, report, session, disk, discovered,
                   h_seen0, h_put, orphanVars, pc2, outcome2, h_put2, h_overlap,
                   buildVars>>

\* _file_worker of the second call: the get times out
SecondWorkerTimeout(w) ==
    /\ pc2 = "joined"
    /\ FirstYields
    /\ wstate2[w] = "get"
    /\ GetTimesOut
    /\ wstate2' = [wstate2 EXCEPT ![w] = "exited"]
    /\ response' = <<>>
    /\ UNCHANGED <<languages, max_workers, queueVars, pc, files, workerVars, navVars,
                   ast_nodes, outcome, report, session, disk, discovered, histVars,
                   orphanVars, pc2, contents2, wtask2, outcome2, h_put2, h_overlap,
                   buildVars>>

\* wait_completion returns to the second call
SecondJoinReturns ==
    /\ pc2 = "joined"
    /\ FirstYields
    /\ JoinDone
    /\ pc2' = "cancel"
    /\ response' = <<>>
    /\ UNCHANGED <<languages, max_workers, queueVars, pc, files, workerVars, navVars,
                   ast_nodes, outcome, report, session, disk, discovered, histVars,
                   orphanVars, contents2, wstate2, wtask2, outcome2, h_put2, h_overlap,
                   buildVars>>

\* the second call from the return of wait_completion to its end: its workers
\* are cancelled, its map becomes self.file_contents, and the trees and graphs
\* are built into the shared caches unless one of the two checks raises
SecondFinish ==
    /\ pc2 = "cancel"
    /\ wstate2' = [w \in Workers |->
                      IF wstate2[w] \in {"get", "read"} THEN "cancelled" ELSE wstate2[w]]
    /\ file_contents' = contents2
    /\ LET r == ParseAll(contents2, 1, languages, ast_cache, <<>>)
       IN  IF contents2 = <<>>
           THEN /\ outcome2' = "EmptyInput"
                /\ UNCHANGED <<ast_cache, hpg, cfgs, pdgs>>
           ELSE IF r[2] = <<>>
           THEN /\ outcome2' = "NoParseable"
                /\ ast_cache' = r[1]
                /\ UNCHANGED <<hpg, cfgs, pdgs>>
           ELSE /\ outcome2' = "report"
                /\ ast_cache' = r[1]
                /\ hpg' = <<HPGBuild(r[2])>>
                /\ cfgs' = CfgsForFiles(r[2], contents2, cfgs)
                /\ pdgs' = PdgsForFiles(r[2], contents2, pdgs)
    /\ pc2' = "done"
    /\ response' = <<>>
    /\ UNCHANGED <<languages, max_workers, queueVars, pc, files, workerVars, ast_nodes,
                   outcome, report, session, disk, discovered, histVars, orphanVars,
                   contents2, wtask2, h_put2, h_overlap, buildVars>>

\* the first call, made on the new orchestrator
FirstStart == session = 0 /\ AnalyzeStart

\* the steps of the first call and of its workers
FirstCall ==
    \/ FirstStart
    \/ AddFile
    \/ StartWorkers
    \/ WaitCompletion
    \/ WaitCompletionReturns
    \/ \E w \in Workers : WorkerGet(w)
    \/ \E w \in Workers : WorkerRead(w)
    \/ \E w \in Workers : WorkerTimeout(w)
    \/ CancelWorkers
    \/ CheckFiles
    \/ BuildASTs
    \/ CheckASTs
    \/ BuildHPG
    \/ BuildCFGs
    \/ BuildPDGs
    \/ Report

NextOverlap ==
    \/ SecondYields /\ FirstCall
    \/ SecondStart
    \/ \E w \in Workers : SecondWorkerGet(w)
    \/ \E w \in Workers : SecondWorkerRead(w)
    \/ \E w \in Workers : SecondWorkerTimeout(w)
    \/ SecondJoinReturns
    \/ SecondFinish

\* a new orchestrator whose FileQueue gives each call one worker: one worker
\* per call is what it takes for the calls to share the queue
OverlapInit == Init /\ max_workers = 1

SpecOverlap == OverlapInit /\ [][NextOverlap]_vars

\* ------------------------------------------------------------ builder runs
\* The extractor and the three builders are pure functions of their inputs: a
\* builder run draws a file-content map and applies parse_file to each file,
\* HPGBuilder.build to the trees, and CFGBuilder.build and PDGBuilder.build to
\* one Function/Method unit of the trees with a source text.

\* a file with any content, also malformed or empty, alone, a file of another
\* language that is longer than the fallback parser's windows, or a file with
\* any source followed by a second file
BuildInputs ==
    {<< <<p, c>> >> : p \in PathsIn(<<"r">>), c \in Sources \cup Malformed \cup {<<>>}}
    \cup {<< <<P_b, LongSource>> >>}
    \cup {<< <<p, c>>, <<q, d>> >> : p \in PathsIn(<<"r">>), c \in Sources,
                                      q \in PathsIn(<<"r">>), d \in Contents}

BuildInit ==
    /\ ProtoInit
    /\ max_workers = 1
    /\ b_pc = "parse"
    /\ b_files \in {fc \in BuildInputs : Len(fc) = 2 => fc[1][1] # fc[2][1]}
    /\ b_trees = <<>>
    /\ b_hpg = <<>>
    /\ b_unit = NoneNode
    /\ b_text = <<>>
    /\ b_cfg = <<>>
    /\ b_pdg = <<>>
    /\ b_first = <<>>

\* a tree's nodes, parents before children, in children order
RECURSIVE AllNodes(_)
RECURSIVE AllNodesOf(_)

AllNodesOf(trees) ==
    IF trees = <<>> THEN <<>> ELSE AllNodes(Head(trees)) \o AllNodesOf(Tail(trees))

AllNodes(ast_node) == <<ast_node>> \o AllNodesOf(ast_node.children)

\* the parent-child links of a forest, as pairs of ids
RECURSIVE TreeLinks(_)
TreeLinks(trees) ==
    IF trees = <<>> THEN {}
    ELSE {<<Head(trees).id, Head(trees).children[i].id>> :
              i \in 1..Len(Head(trees).children)}
         \cup TreeLinks(Head(trees).children) \cup TreeLinks(Tail(trees))

BParse ==
    /\ b_pc = "parse"
    /\ b_trees' = ParseAll(b_files, 1, languages, <<>>, <<>>)[2]
    /\ b_pc' = "hpg"
    /\ UNCHANGED <<protoVars, b_files, b_hpg, b_unit, b_text, b_cfg, b_pdg, b_first>>

BBuildHPG ==
    /\ b_pc = "hpg"
    /\ b_hpg' = <<HPGBuild(b_trees)>>
    /\ b_pc' = "unit"
    /\ UNCHANGED <<protoVars, b_files, b_trees, b_unit, b_text, b_cfg, b_pdg, b_first>>

BBuildCFG ==
    /\ b_pc = "unit"
    /\ \E unit \in {u \in Range(AllNodesOf(b_trees)) : IsUnit(u)} :
         \E text \in {DictGet(b_files, unit.file_path, <<>>), <<>>} :
            /\ b_unit' = unit
            /\ b_text' = text
            /\ b_cfg' = <<CFGBuild(unit, text)>>
    /\ b_pc' = "cfg"
    /\ UNCHANGED <<protoVars, b_files, b_trees, b_hpg, b_pdg, b_first>>

BBuildPDG ==
    /\ b_pc = "cfg"
    /\ b_pdg' = <<PDGBuild(b_unit, b_text)>>
    /\ b_pc' = "done"
    /\ UNCHANGED <<protoVars, b_files, b_trees, b_hpg, b_unit, b_text, b_cfg, b_first>>

NextBuild ==
    \/ BParse
    \/ BBuildHPG
    \/ BBuildCFG
    \/ BBuildPDG

SpecBuild == BuildInit /\ [][NextBuild]_vars

\* ----------------------------------------------------------- repeated runs
\* The stages of analyze_repository after ingestion, run twice on one
\* orchestrator over the same file-content map: the first run starts where
\* process_repository has returned the map, the second after clear_analysis,
\* with the same map in the order ingestion filled it this time (the order
\* is that in which the workers' reads finished).

\* the content maps given to the two runs: one or two files with content
TwiceInputs ==
    LET short == {c \in Sources : Len(c) < MaxLines}
    IN  {<< <<p, c>> >> : p \in PathsIn(<<"r">>), c \in short}
        \cup {fc \in {<< <<p, c>>, <<q, d>> >> : p \in PathsIn(<<"r">>), c \in short,
                                                  q \in PathsIn(<<"r">>), d \in Contents} :
                 fc[1][1] # fc[2][1]}

\* the orders a dict with these items can have
Orders(fc) ==
    {o \in [1..Len(fc) -> Range(fc)] : Range(o) = Range(fc)}

TwiceInit ==
    /\ languages \in {{}, {"python"}}
    /\ max_workers = 1
    /\ file_contents \in TwiceInputs
    /\ contents = file_contents
    /\ processed_files = DictKeys(file_contents)
    /\ discovered = DictKeys(file_contents)
    /\ disk = [p \in Paths |-> DictGet(file_contents, p, <<>>)]
    /\ queue = <<>>
    /\ unfinished = 0
    /\ files = <<>>
    /\ wstate = [w \in Workers |-> IF w <= max_workers THEN "cancelled" ELSE "none"]
    /\ wtask = [w \in Workers |-> <<>>]
    /\ pc = "parse"
    /\ ast_cache = <<>> /\ hpg = <<>> /\ cfgs = <<>> /\ pdgs = <<>>
    /\ ast_nodes = <<>>
    /\ outcome = "none"
    /\ report = <<>>
    /\ session = 1
    /\ h_seen0 = {}
    /\ h_put = Len(file_contents)
    /\ h_done = Len(file_contents)
    /\ h_reads = [p \in Paths |-> IF p \in DictKeys(file_contents) THEN 1 ELSE 0]
    /\ h_failed = {}
    /\ response = <<>>
    /\ NoOrphans
    /\ NoSecond
    /\ BuildIdle

\* the first run has returned its report: clear_analysis, and the stages get
\* the same content map again
RunAgain ==
    /\ pc = "idle"
    /\ outcome = "report"
    /\ b_first = <<>>
    /\ b_first' = <<[file_contents |-> file_contents, hpg |-> hpg[1], cfgs |-> cfgs,
                     pdgs |-> pdgs, report |-> report[1]]>>
    /\ ast_cache' = <<>>
    /\ hpg' = <<>>
    /\ cfgs' = <<>>
    /\ pdgs' = <<>>
    /\ file_contents' \in Orders(file_contents)
    /\ ast_nodes' = <<>>
    /\ outcome' = "none"
    /\ report' = <<>>
    /\ session' = session + 1
    /\ pc' = "parse"
    /\ response' = <<>>
    /\ UNCHANGED <<languages, max_workers, queueVars, files, workerVars, disk, discovered,
                   histVars, orphanVars, overlapVars, b_pc, b_files, b_trees, b_hpg, b_unit, b_text,
                   b_cfg, b_pdg>>

NextTwice ==
    \/ BuildASTs
    \/ CheckASTs
    \/ BuildHPG
    \/ BuildCFGs
    \/ BuildPDGs
    \/ Report
    \/ RunAgain

SpecTwice == TwiceInit /\ [][NextTwice]_vars

\* ------------------------------------------------------------------ claims

\* the tasks for path p that are pending, held by a worker, or already read
TasksOf(p) ==
    Cardinality({i \in 1..Len(queue) : queue[i] = p})
    + Cardinality({w \in Workers : wstate[w] = "read" /\ wtask[w] = p})
    + h_reads[p]

\* the discovered files whose read returns content
Readable == {p \in discovered : disk[p] # <<>>}

\* C1: drainage safety. In the state in which wait_completion has just
\* returned, every queue.put has had its task_done: no task is pending and no
\* worker holds one.
DrainageSafety ==
    pc = "cancel" =>
        /\ h_done = h_put
        /\ queue = <<>>
        /\ \A w \in Workers : wstate[w] # "read"

DrainageSafetyWitness ==
    /\ pc = "cancel"
    /\ Cardinality(discovered \ h_seen0) = 2
    /\ h_done = 2

\* C2: drainage liveness. Under fair scheduling, every call of wait_completion
\* returns, whatever the pool size, the read results and the idle exits.
DrainageLiveness == (pc = "join") ~> (pc = "cancel")

DrainageLivenessWitness ==
    /\ pc = "cancel"
    /\ \E w \in Workers : wstate[w] = "exited"
    /\ \E p \in discovered : h_reads[p] = 1 /\ disk[p] = <<>>
    /\ \E p \in discovered : h_reads[p] = 1 /\ disk[p] # <<>>

\* C3: queue dedup. Every path of the seen-set has exactly one FileTask
\* (pending, held by a worker, or read), every other path has none, and
\* add_file on a seen path changes neither the queue nor the seen-set.
QueueDedup ==
    /\ [](/\ h_put = Cardinality(processed_files)
          /\ \A p \in Paths : TasksOf(p) = IF p \in processed_files THEN 1 ELSE 0)
    /\ [][(pc = "add" /\ files # <<>> /\ Head(files) \in processed_files)
            => (queue' = queue /\ unfinished' = unfinished
                /\ processed_files' = processed_files)]_vars

QueueDedupWitness ==
    /\ pc = "add"
    /\ \E p \in discovered \cap h_seen0 : p \notin Range(files)
    /\ queue # <<>>

\* C7: empty input is fatal. An analysis whose file list is empty, or whose
\* reads all return empty content, ends with the empty-input error and no
\* report; after that error every cache is empty and there is no graph.
EmptyInputFatal ==
    /\ (pc = "idle" /\ outcome \notin {"none", "CloneError"} /\ Readable = {})
           => (outcome = "EmptyInput" /\ report = <<>>)
    /\ outcome = "EmptyInput"
           => (file_contents = <<>> /\ ast_cache = <<>> /\ hpg = <<>>
               /\ cfgs = <<>> /\ pdgs = <<>>)

EmptyInputFatalWitness ==
    /\ pc = "idle"
    /\ outcome = "EmptyInput"
    /\ session = 1
    /\ \E p \in discovered : h_reads[p] = 1

\* C8: partial read failure is absorbed. An analysis that discovers both an
\* unreadable and a readable file ends with a report, and the content map,
\* the tree cache and the report cover exactly the readable files.
PartialFailureAbsorbed ==
    LET mixed == Readable # {} /\ Readable # discovered
    IN  /\ (pc = "idle" /\ outcome \notin {"none", "CloneError"} /\ mixed)
               => /\ outcome = "report"
                  /\ report[1].total_files = Cardinality(Readable)
                  /\ {report[1].file_breakdown[i].file_path :
                          i \in 1..Len(report[1].file_breakdown)} = Readable
        /\ (pc \in {"hpg", "cfg", "pdg", "report"} /\ mixed)
               => /\ DictKeys(file_contents) = Readable
                  /\ DictKeys(ast_cache) = Readable

\* C8 holds of an analysis none of whose paths an earlier session enqueued.
PartialFailureFirstSeen ==
    LET mixed == Readable # {} /\ Readable # discovered
        fresh == discovered \cap h_seen0 = {}
    IN  /\ (pc = "idle" /\ outcome \notin {"none", "CloneError"} /\ mixed /\ fresh)
               => /\ outcome = "report"
                  /\ report[1].total_files = Cardinality(Readable)
                  /\ {report[1].file_breakdown[i].file_path :
                          i \in 1..Len(report[1].file_breakdown)} = Readable
        /\ (pc \in {"hpg", "cfg", "pdg", "report"} /\ mixed /\ fresh)
               => /\ DictKeys(file_contents) = Readable
                  /\ DictKeys(ast_cache) = Readable

\* C9: the no-parseable-content error. An analysis ends with it exactly when
\* ingestion returned a non-empty content map and the parse loop kept no tree,
\* and then there is no containment graph and no CFG or PDG.
NoParseableIff ==
    /\ (pc = "idle" /\ outcome \notin {"none", "CloneError"})
           => ((outcome = "NoParseable") <=> (contents # <<>> /\ ast_nodes = <<>>))
    /\ outcome = "NoParseable" => (hpg = <<>> /\ cfgs = <<>> /\ pdgs = <<>>)

NoParseableIffWitness ==
    /\ pc = "idle"
    /\ outcome = "report"
    /\ Len(contents) = 1
    /\ Len(ast_nodes) = 1

\* C10: cross-session seen-set. The seen-set changes only by add_file adding
\* an unseen path (never by clear_analysis or by the start of an analysis), and
\* a path an earlier session enqueued gets no task and no read in a later one.
CrossSessionSeenSet ==
    /\ [][processed_files' # processed_files
            => (pc = "add" /\ files # <<>>
                /\ processed_files' = processed_files \cup {Head(files)})]_vars
    /\ [](/\ \A p \in h_seen0 :
                 p \notin Range(queue) /\ \A w \in Workers : wtask[w] # p
          /\ \A p \in Paths : h_reads[p] <= 1)

CrossSessionSeenSetWitness ==
    /\ session = 2
    /\ pc = "idle"
    /\ outcome = "EmptyInput"
    /\ \E p \in discovered \cap h_seen0 : disk[p] # <<>>


\* the ids of a forest's roots
RootIds(trees) == {trees[i].id : i \in 1..Len(trees)}

\* C4: containment invariant. In the graph HPGBuilder.build makes of the
\* extractor's trees, every node that is not a root has exactly one incoming
\* "contains" edge, and it comes from the node's direct parent in its tree.
ContainmentInvariant ==
    b_pc \in {"unit", "cfg", "done"} =>
        LET g == b_hpg[1]
        IN  \A c \in DOMAIN g.nodes \ RootIds(b_trees) :
               LET into == {e \in DOMAIN g.edges : e[2] = c}
               IN  /\ Cardinality(into) = 1
                   /\ \A e \in into : e \in TreeLinks(b_trees) /\ g.edges[e] = "contains"

\* C4 holds of the trees the line-based fallback parser makes.
ContainmentInvariantFallback ==
    (b_pc \in {"unit", "cfg", "done"} /\ languages = {}) =>
        LET g == b_hpg[1]
        IN  \A c \in DOMAIN g.nodes \ RootIds(b_trees) :
               LET into == {e \in DOMAIN g.edges : e[2] = c}
               IN  /\ Cardinality(into) = 1
                   /\ \A e \in into : e \in TreeLinks(b_trees) /\ g.edges[e] = "contains"

\* C5: CFG invariant. The graph CFGBuilder.build returns for a unit has two
\* nodes, an entry at the unit's line_start and an exit at its line_end, and
\* one edge, entry -> exit of type "normal", whatever the source text.
CFGInvariant ==
    b_pc \in {"cfg", "done"} =>
        LET g == b_cfg[1]
            entries == {n \in DOMAIN g.nodes : g.nodes[n].type = "entry"}
            exits == {n \in DOMAIN g.nodes : g.nodes[n].type = "exit"}
        IN  /\ Cardinality(DOMAIN g.nodes) = 2
            /\ Cardinality(entries) = 1
            /\ Cardinality(exits) = 1
            /\ DOMAIN g.edges = entries \X exits
            /\ \A e \in DOMAIN g.edges : g.edges[e] = "normal"
            /\ \A n \in entries : g.nodes[n].line_number = b_unit.line_start
            /\ \A n \in exits : g.nodes[n].line_number = b_unit.line_end

CFGInvariantWitness ==
    /\ b_pc = "cfg"
    /\ b_text = <<>>
    /\ b_unit.line_start < b_unit.line_end

\* the id of the dependency node at scan position i
VarId(unit, i) == S_var \o unit.id \o <<"_">> \o IntToStr(i)

\* C6: PDG chain invariant. The k nodes of the graph PDGBuilder.build returns
\* are those of scan positions 0..k-1, in line order, and its edges are exactly
\* the max(k-1, 0) "data_flow" edges from position i to position i+1.
PDGChainInvariant ==
    b_pc = "done" =>
        LET g == b_pdg[1]
            k == Cardinality(DOMAIN g.nodes)
        IN  /\ DOMAIN g.nodes = {VarId(b_unit, i) : i \in 0..(k - 1)}
            /\ Cardinality(DOMAIN g.edges) = Max(k - 1, 0)
            /\ DOMAIN g.edges = {<<VarId(b_unit, i), VarId(b_unit, i + 1)>> : i \in 0..(k - 2)}
            /\ \A e \in DOMAIN g.edges : g.edges[e] = "data_flow"
            /\ \A i \in 0..(k - 2) :
                   g.nodes[VarId(b_unit, i)].line_number
                       < g.nodes[VarId(b_unit, i + 1)].line_number

PDGChainInvariantWitness ==
    /\ b_pc = "done"
    /\ Cardinality(DOMAIN b_pdg[1].nodes) = 3
    /\ Cardinality(DOMAIN b_pdg[1].edges) = 2

\* the file paths a report lists
ReportedPaths(r) == {r.file_breakdown[i].file_path : i \in 1..Len(r.file_breakdown)}

\* C11: a fresh analyze_repository call is the retry. A path whose read failed
\* in an earlier call and that a later call discovers again has been read
\* again once that call's ingestion has returned; when the read now succeeds
\* the path is in the content map, and in the report the call ends with.
RetryByFreshAnalyze ==
    LET retried == discovered \cap h_seen0 \cap h_failed
    IN  /\ pc = "check_files" =>
               \A p \in retried :
                  /\ h_reads[p] >= 2
                  /\ disk[p] # <<>> => p \in DictKeys(file_contents)
        /\ (pc = "idle" /\ outcome \notin {"none", "CloneError"}) =>
               \A p \in retried :
                  disk[p] # <<>> => (outcome = "report" /\ p \in ReportedPaths(report[1]))

\* C14: no partial ingestion result is exposed. From the start of a call
\* until wait_completion has returned, the orchestrator's file_contents is
\* empty; it becomes non-empty only in the step after the return, and then it
\* is the workers' whole map: every readable file enqueued in this call.
NoPartialIngestion ==
    /\ [](pc \in {"add", "join", "joined", "cancel"} => file_contents = <<>>)
    /\ [][(file_contents' # file_contents /\ file_contents' # <<>>)
            => /\ pc = "cancel"
               /\ unfinished = 0
               /\ file_contents' = contents
               /\ DictKeys(file_contents') = Readable \ h_seen0]_vars

NoPartialIngestionWitness ==
    /\ pc = "joined"
    /\ session = 2
    /\ Cardinality(Readable \ h_seen0) = 2
    /\ Len(contents) = 1
    /\ file_contents = <<>>

\* C15: clear_analysis drops every session cache. In the state it leaves,
\* whatever the state it was called in, the tree, CFG, PDG and file-content
\* caches are empty and there is no containment graph, so that
\* get_analysis_status reports zeros and no graph; a second clear_analysis
\* right after changes nothing.
ClearDropsCaches ==
    /\ [](response = <<"cleared">> =>
             /\ ast_cache = <<>> /\ cfgs = <<>> /\ pdgs = <<>> /\ file_contents = <<>>
             /\ hpg = <<>>
             /\ GetAnalysisStatus.files_analyzed = 0
             /\ GetAnalysisStatus.cfgs_built = 0
             /\ GetAnalysisStatus.pdgs_built = 0
             /\ GetAnalysisStatus.hpg_exists = FALSE)
    /\ [][(ClearAnalysis /\ response = <<"cleared">>) => UNCHANGED vars]_vars

ClearDropsCachesWitness ==
    /\ response = <<"cleared">>
    /\ pc = "idle"
    /\ outcome = "report"
    /\ report[1].cfgs_built > 0

\* two reports that differ at most in analysis_timestamp
SameButTimestamp(r1, r2) ==
    [r1 EXCEPT !.analysis_timestamp = 0] = [r2 EXCEPT !.analysis_timestamp = 0]

\* C16: the report is a pure read of the caches. The /api/analysis read
\* changes no cache, and after an analysis that returned a report, with no
\* clear or analysis since, it returns that report but for the timestamp:
\* the cached trees, the CFG and PDG cache sizes, the graph's sizes.
ReportPureRead ==
    /\ [][GetAnalysis => UNCHANGED navVars]_vars
    /\ []((response # <<>> /\ response[1] = "analysis" /\ pc = "idle" /\ outcome = "report")
            => /\ hpg # <<>>
               /\ SameButTimestamp(response[2], report[1])
               /\ response[2].total_files = Len(ast_cache)
               /\ response[2].cfgs_built = Len(cfgs)
               /\ response[2].pdgs_built = Len(pdgs)
               /\ response[2].hpg_nodes = Cardinality(DOMAIN hpg[1].nodes)
               /\ response[2].hpg_edges = Cardinality(DOMAIN hpg[1].edges))

ReportPureReadWitness ==
    /\ response # <<>>
    /\ response[1] = "analysis"
    /\ pc = "idle"
    /\ outcome = "report"
    /\ response[2].analysis_timestamp > report[1].analysis_timestamp
    /\ response[2].total_files = 2

\* the ids of the Function/Method units of a forest
UnitIds(trees) == {u.id : u \in {n \in Range(AllNodesOf(trees)) : IsUnit(n)}}

\* C19: stage ordering inside one analyze_repository call. The caches are
\* empty while ingestion runs; no tree is cached before drainage has been
\* observed; the containment graph is built when every loaded file has its
\* tree; the CFGs are built when the graph exists; the PDGs when every unit
\* has its CFG; the report is computed last, from the finished caches.
StageOrdering ==
    /\ [](/\ pc \in {"add", "join", "joined", "cancel"} =>
                (file_contents = <<>> /\ ast_cache = <<>> /\ hpg = <<>>
                 /\ cfgs = <<>> /\ pdgs = <<>>)
          /\ pc \in {"check_files", "parse"} =>
                (unfinished = 0 /\ ast_cache = <<>> /\ hpg = <<>>
                 /\ cfgs = <<>> /\ pdgs = <<>>)
          /\ pc \in {"check_asts", "hpg"} =>
                (DictKeys(ast_cache) = DictKeys(file_contents) /\ hpg = <<>>
                 /\ cfgs = <<>> /\ pdgs = <<>>)
          /\ pc = "cfg" => (hpg # <<>> /\ cfgs = <<>> /\ pdgs = <<>>)
          /\ pc = "pdg" => (hpg # <<>> /\ DictKeys(cfgs) = UnitIds(ast_nodes) /\ pdgs = <<>>)
          /\ pc = "report" => (DictKeys(pdgs) = UnitIds(ast_nodes) /\ report = <<>>))
    /\ [][(report' # report /\ report' # <<>>) =>
               (pc = "report" /\ pc' = "idle" /\ UNCHANGED navVars)]_vars

StageOrderingWitness ==
    /\ pc = "pdg"
    /\ Len(ast_cache) = 2
    /\ Len(cfgs) = 2

\* C20: each FileTask is consumed exactly once. A dequeue takes the oldest
\* task out of the queue and gives it to one worker; no two workers hold the
\* same path; a path that has been read, with or without success, has no
\* task left and is not read again; when wait_completion returns every task
\* enqueued in the call has been read once.
TaskConsumedOnce ==
    /\ [](\A p \in Paths :
             /\ Cardinality({w \in Workers : wtask[w] = p}) <= 1
             /\ h_reads[p] <= 1
             /\ h_reads[p] = 1 =>
                    (p \notin Range(queue) /\ \A w \in Workers : wtask[w] # p))
    /\ [](pc = "cancel" => \A p \in discovered \ h_seen0 : h_reads[p] = 1)
    /\ [][queue' # queue /\ Len(queue') <= Len(queue) =>
               /\ queue' = Tail(queue)
               /\ \E w \in Workers :
                     /\ wtask[w] = <<>>
                     /\ wtask' = [wtask EXCEPT ![w] = Head(queue)]]_vars

TaskConsumedOnceWitness ==
    /\ pc = "joined"
    /\ Cardinality({w \in Workers : wstate[w] = "read"}) = 2
    /\ \E p \in discovered : disk[p] = <<>> /\ \E w \in Workers : wtask[w] = p
    /\ queue = <<>>

\* C17: SyntaxNode ids are unique in a session. No two nodes of the trees the
\* extractor makes of the files of one analysis, in one file or in two, have
\* the same id.
SyntaxNodeIdsUnique ==
    b_pc \in {"hpg", "unit", "cfg", "done"} =>
        LET ns == AllNodesOf(b_trees)
        IN  \A i, j \in 1..Len(ns) : i # j => ns[i].id # ns[j].id

\* C17 holds of the trees the line-based fallback parser makes, whose ids end
\* with the line index.
SyntaxNodeIdsUniqueFallback ==
    (b_pc \in {"hpg", "unit", "cfg", "done"} /\ languages = {}) =>
        LET ns == AllNodesOf(b_trees)
        IN  \A i, j \in 1..Len(ns) : i # j => ns[i].id # ns[j].id

\* the files of a content map that have content
NonEmptyFiles(fc) == SelectSeq(fc, LAMBDA item : item[2] # <<>>)

\* C18: extraction never fails. parse_file gives a File root node for every
\* file with non-empty content, well-formed or not: the container node of
\* that path, spanning line 1 to the last line, with the entities found or
\* none; for empty content it gives no node.
ExtractionTotal ==
    b_pc \in {"hpg", "unit", "cfg", "done"} =>
        LET given == NonEmptyFiles(b_files)
        IN  /\ Len(b_trees) = Len(given)
            /\ \A k \in 1..Len(given) :
                   /\ b_trees[k] # NoneNode
                   /\ b_trees[k].type = "class"
                   /\ b_trees[k].id = S_file \o Replace(given[k][1], "/", "_")
                   /\ b_trees[k].name = Basename(given[k][1])
                   /\ b_trees[k].file_path = given[k][1]
                   /\ b_trees[k].line_start = 1
                   /\ b_trees[k].line_end = Len(given[k][2])
                   /\ \A i \in 1..Len(b_trees[k].children) :
                          b_trees[k].children[i].type \in {"function", "class"}

ExtractionTotalWitness ==
    /\ b_pc = "hpg"
    /\ languages = {"python"}
    /\ Len(b_files) = 1
    /\ b_files[1][2] \in Malformed
    /\ Len(b_trees) = 1
    /\ b_trees[1].children = <<>>

\* C18, empty content: parse_file gives no node.
ExtractionOfEmptyWitness ==
    /\ b_pc = "hpg"
    /\ Len(b_files) = 1
    /\ b_files[1][2] = <<>>
    /\ b_trees = <<>>

CancelStopsWorkers ==
    /\ [](outcome = "Cancelled" => queue = <<>>)
    /\ [][~ \E w \in Workers : OrphanGet(w) \/ OrphanRead(w)]_vars


\* the positions of analyze_repository after process_repository has returned
AfterIngestion == {"check_files", "parse", "check_asts", "hpg", "cfg", "pdg", "report"}

\* C21: workers are quiescent after ingestion. While any worker of the call
\* exists, every discovered path has been offered to the queue; once
\* process_repository has returned, no worker is waiting for a task or holds
\* one, and until the next call starts the map it returned is not changed;
\* the cancellation leaves a worker that has already ended as it was.
WorkersQuiescent ==
    /\ []((\E w \in Workers : wstate[w] # "none")
            => files = <<>> /\ discovered \subseteq processed_files)
    /\ []((pc \in AfterIngestion \/ (pc = "idle" /\ session > 0))
            => \A w \in Workers : wstate[w] \notin {"get", "read"} /\ wtask[w] = <<>>)
    /\ [][(pc \in AfterIngestion \/ (pc = "idle" /\ pc' = "idle"))
            => contents' = contents]_vars
    /\ [][pc = "cancel"
            => /\ contents' = contents
               /\ file_contents' = contents
               /\ \A w \in Workers :
                     wstate[w] \in {"none", "exited", "failed"} => wstate'[w] = wstate[w]]_vars

\* a call has returned its map with one file in it after one worker had
\* timed out and the other was cancelled while waiting in get
WorkersQuiescentWitness ==
    /\ pc = "check_files"
    /\ file_contents # <<>>
    /\ \E w \in Workers : wstate[w] = "exited"
    /\ \E w \in Workers : wstate[w] = "cancelled"


\* the paths the first call enqueued
PutByFirst == processed_files \ h_put2

\* a worker of one call holds a task the other call enqueued, or the content
\* map of one call has a file the other call enqueued
Crossed ==
    \/ \E w \in Workers : wtask[w] \in h_put2
    \/ \E w \in Workers : wtask2[w] \in PutByFirst
    \/ DictKeys(contents) \cap h_put2 # {}
    \/ DictKeys(contents2) \cap PutByFirst # {}

\* C22: two analyze_repository calls on one orchestrator are not isolated.
\* A worker of one call holds a task, or a call's content map has a file, that
\* the other call enqueued only if the second call started while the first
\* was suspended in ingestion; when the second starts after the first has
\* ended no such state is reached.
CallsNotIsolated == Crossed => h_overlap

\* the second call started while the first waited for drainage and cleared
\* the caches; each call's map now holds a file the other call enqueued
CallsNotIsolatedWitness ==
    /\ h_overlap
    /\ DictKeys(contents) \cap h_put2 # {}
    /\ DictKeys(contents2) \cap PutByFirst # {}


\* C23: with the grammar-based parser a function definition directly inside
\* a class body is a child of the class node and not also a child of the
\* file node: no child of the file node is a function that starts on the
\* line on which a function child of one of its class children starts.
MethodAttachedOnce ==
    (b_pc \in {"hpg", "unit", "cfg", "done"} /\ languages = {"python"}) =>
        \A k \in 1..Len(b_trees) :
            LET top == b_trees[k].children
            IN  \A c \in 1..Len(top) : \A m \in 1..Len(top[c].children) :
                    (top[c].type = "class" /\ top[c].children[m].type = "function")
                    => ~ \E n \in 1..Len(top) :
                            /\ top[n].type = "function"
                            /\ top[n].line_start = top[c].children[m].line_start


\* a directed graph has a cycle when some non-empty set of its nodes gives
\* each of its members a predecessor in the set
HasCycle(g) ==
    \E S \in SUBSET (DOMAIN g.nodes) :
        /\ S # {}
        /\ \A v \in S : \E u \in S : <<u, v>> \in DOMAIN g.edges

\* C24: the containment graph is a forest with one graph node per SyntaxNode
\* and one edge per tree edge: its node count is the number of SyntaxNodes of
\* the trees, its edge count is the number of parent-child links, which is
\* the node count less the number of files, and it has no cycle.
ForestInvariant ==
    b_pc \in {"unit", "cfg", "done"} =>
        LET g == b_hpg[1]
            n == Len(AllNodesOf(b_trees))
        IN  /\ Cardinality(DOMAIN g.nodes) = n
            /\ Cardinality(DOMAIN g.edges) = n - Len(b_trees)
            /\ Cardinality(DOMAIN g.edges) = Cardinality(DOMAIN g.nodes) - Len(b_trees)
            /\ ~HasCycle(g)

\* C24 holds of the trees the line-based fallback parser makes.
ForestInvariantFallback ==
    (b_pc \in {"unit", "cfg", "done"} /\ languages = {}) =>
        LET g == b_hpg[1]
            n == Len(AllNodesOf(b_trees))
        IN  /\ Cardinality(DOMAIN g.nodes) = n
            /\ Cardinality(DOMAIN g.edges) = n - Len(b_trees)
            /\ ~HasCycle(g)


\* a node's range is 1 <= line_start <= line_end and holds the range of each
\* of its children, and so on below
RECURSIVE RangesNested(_)
RangesNested(node) ==
    /\ 1 <= node.line_start
    /\ node.line_start <= node.line_end
    /\ \A i \in 1..Len(node.children) :
           /\ node.line_start <= node.children[i].line_start
           /\ node.children[i].line_end <= node.line_end
           /\ RangesNested(node.children[i])

\* the file goes to the line-based parser
ToFallback(file_path) ==
    ~(SplitExt(file_path) = <<".", "p", "y">> /\ "python" \in languages)

IsDefLine(line) == StartsWith(Strip(line), <<"d", "e", "f", " ">>) /\ EndsWith(Strip(line), <<":">>)

IsClassLine(line) ==
    StartsWith(Strip(line), <<"c", "l", "a", "s", "s", " ">>) /\ EndsWith(Strip(line), <<":">>)

\* C25: line-range invariant. Every SyntaxNode of either parser has
\* 1 <= line_start <= line_end and lies within its direct parent's range; the
\* fallback parser makes one childless child of the File node per matching
\* line s, in line order, a function ending at min(s + 9, number of lines)
\* and a class ending at min(s + 19, number of lines).
LineRangeInvariant ==
    b_pc \in {"hpg", "unit", "cfg", "done"} =>
        LET given == NonEmptyFiles(b_files)
        IN  \A k \in 1..Len(b_trees) :
              /\ RangesNested(b_trees[k])
              /\ ToFallback(given[k][1]) =>
                    LET lines == given[k][2]
                        n     == Len(lines)
                        kids  == b_trees[k].children
                        hits  == SortedSeq({s \in 1..n : IsDefLine(lines[s])
                                                          \/ IsClassLine(lines[s])})
                    IN  /\ Len(kids) = Len(hits)
                        /\ \A j \in 1..Len(kids) :
                              /\ kids[j].children = <<>>
                              /\ kids[j].line_start = hits[j]
                              /\ IF IsDefLine(lines[hits[j]])
                                 THEN /\ kids[j].type = "function"
                                      /\ kids[j].line_end = Min(hits[j] + 9, n)
                                 ELSE /\ kids[j].type = "class"
                                      /\ kids[j].line_end = Min(hits[j] + 19, n)

\* the fallback parser has read a file longer than both windows: the class
\* on line 1 ends on line 20 and the function on line 2 on line 11, both
\* before the end of the file
LineRangeInvariantWitness ==
    /\ b_pc = "hpg"
    /\ Len(b_trees) = 1
    /\ ToFallback(b_files[1][1])
    /\ Len(b_trees[1].children) = 2
    /\ b_trees[1].children[1].type = "class"
    /\ b_trees[1].children[1].line_end = 20
    /\ b_trees[1].children[2].type = "function"
    /\ b_trees[1].children[2].line_end = 11
    /\ b_trees[1].line_end > 20

\* C25, the grammar-based parser: a method lies within its class
LineRangeNestedWitness ==
    /\ b_pc = "hpg"
    /\ Len(b_trees) = 1
    /\ ~ToFallback(b_files[1][1])
    /\ \E c \in 1..Len(b_trees[1].children) :
          /\ b_trees[1].children[c].children # <<>>
          /\ b_trees[1].children[c].children[1].line_start
               > b_trees[1].children[c].line_start


\* the trees of the tree cache, in insertion order
CachedTrees == [i \in 1..Len(ast_cache) |-> ast_cache[i][2]]

\* the Function/Method nodes anywhere in the cached trees
CachedUnits == {n \in Range(AllNodesOf(CachedTrees)) : IsUnit(n)}

\* C26: full rebuild of the per-unit caches. After a successful
\* analyze_repository the CFG cache and the PDG cache have the same keys, the
\* ids of the Function/Method nodes of the cached trees; each graph is the
\* one built for a unit of that id with the content of the unit's file; and
\* the content and tree caches hold only files enqueued in this call.
FullRebuild ==
    (pc = "idle" /\ outcome = "report") =>
        /\ DictKeys(cfgs) = DictKeys(pdgs)
        /\ DictKeys(cfgs) = {u.id : u \in CachedUnits}
        /\ \A id \in DictKeys(cfgs) : \E u \in CachedUnits :
              /\ u.id = id
              /\ u.file_path \in DictKeys(file_contents)
              /\ DictGet(cfgs, id, <<>>)
                   = CFGBuild(u, DictGet(file_contents, u.file_path, <<>>))
              /\ DictGet(pdgs, id, <<>>)
                   = PDGBuild(u, DictGet(file_contents, u.file_path, <<>>))
        /\ DictKeys(file_contents) \subseteq discovered \ h_seen0
        /\ DictKeys(ast_cache) = DictKeys(file_contents)

\* a second call has succeeded after a first one whose files were all read:
\* the caches hold the units of the second call's files only
FullRebuildWitness ==
    /\ pc = "idle"
    /\ outcome = "report"
    /\ session = 2
    /\ h_seen0 # {}
    /\ h_failed = {}
    /\ cfgs # <<>>
    /\ pdgs # <<>>


\* a status of no analysis, or of a finished one: at least one file, and as
\* many CFGs and PDGs as the cached trees have unit ids
StatusWhole(status) ==
    /\ status.has_analysis = status.hpg_exists
    /\ IF status.hpg_exists
       THEN /\ status.files_analyzed >= 1
            /\ status.cfgs_built = Cardinality({u.id : u \in CachedUnits})
            /\ status.pdgs_built = status.cfgs_built
       ELSE /\ status.files_analyzed = 0
            /\ status.cfgs_built = 0
            /\ status.pdgs_built = 0

\* C27: status polling never sees a half-built analysis. Where another task
\* can run, with the orchestrator idle or suspended in ingestion,
\* get_analysis_status gives hpg_exists false with all counts 0, or
\* hpg_exists true with at least one file and the CFG and PDG caches
\* complete for the cached trees, has_analysis equal to hpg_exists; and so is
\* every answer of /api/status.
StatusNeverHalfBuilt ==
    /\ pc \in {"idle", "joined"} =>
          /\ StatusWhole(GetAnalysisStatus)
          /\ hpg # <<>> => (DictKeys(cfgs) = {u.id : u \in CachedUnits}
                            /\ DictKeys(pdgs) = DictKeys(cfgs))
    /\ (response # <<>> /\ response[1] = "status") => StatusWhole(response[2])

\* /api/status has answered after an analysis: a graph, a file, a CFG, a PDG
StatusNeverHalfBuiltWitness ==
    /\ response # <<>>
    /\ response[1] = "status"
    /\ response[2].hpg_exists
    /\ response[2].cfgs_built >= 1
    /\ response[2].pdgs_built >= 1

\* C27, polled during ingestion: the second call waits for drainage after a
\* first call that built graphs, and /api/status answers with no analysis
StatusDuringIngestionWitness ==
    /\ pc = "joined"
    /\ session = 2
    /\ h_seen0 # {}
    /\ h_failed = {}
    /\ response # <<>>
    /\ response[1] = "status"
    /\ ~response[2].hpg_exists


\* the tasks handed to a worker whose read has not finished
Held == {w \in Workers : wstate[w] = "read"}

\* C28: done-marking discipline. The tasks marked done are the dequeued
\* tasks whose read has finished: task_done calls and held tasks add up to
\* the completed dequeues, the queue's unfinished count is the puts less the
\* task_done calls, and no worker has reached the error branch. A task_done
\* call is the last part of the step in which a worker's read of the task it
\* holds finishes and the content, when non-empty, is recorded.
DoneMarking ==
    /\ [](/\ h_done + Cardinality(Held) = h_put - Len(queue)
          /\ h_done <= h_put - Len(queue)
          /\ unfinished = h_put - h_done
          /\ \A w \in Workers : wstate[w] # "failed")
    /\ [][h_done' # h_done =>
              /\ h_done' = h_done + 1
              /\ unfinished' = unfinished - 1
              /\ \E w \in Held :
                    /\ wtask[w] # <<>>
                    /\ wtask'[w] = <<>>
                    /\ wstate'[w] = "get"
                    /\ h_reads'[wtask[w]] = h_reads[wtask[w]] + 1
                    /\ IF disk[wtask[w]] # <<>>
                       THEN DictGet(contents', wtask[w], <<>>) = disk[wtask[w]]
                       ELSE contents' = contents /\ wtask[w] \in h_failed']_vars

\* both tasks of a call have been marked done, one after a read that failed
\* and one after a read whose content was recorded
DoneMarkingWitness ==
    /\ pc = "joined"
    /\ h_done = 2
    /\ unfinished = 0
    /\ h_failed # {}
    /\ contents # <<>>

====
